---------------------------- MODULE Spec2Model ----------------------------
(***************************************************************************)
(* A model of the ingestion core of payment-maker:                         *)
(*   src/paymentmaker/core/data_processor.py  (DataProcessor)              *)
(*   src/paymentmaker/core/models.py          (TransportService,           *)
(*                                              ProcessingResult)          *)
(*                                                                         *)
(* Text is modelled at the level of whitespace-separated tokens: an        *)
(* address line is a sequence of tokens drawn from Vocabulary, and every   *)
(* regular expression of the source is rendered as the search it performs  *)
(* over such a line (leftmost match, greedy groups, IGNORECASE).  The      *)
(* tables Lower, LeadRun and TailRun give, for the tokens of the vocabulary,     *)
(* what str.lower() and the character class [А-Яа-я\-]+ yield on them.     *)
(***************************************************************************)
EXTENDS Integers, Sequences, FiniteSets, TLC

VARIABLES
    CITY_CORRECTIONS,   \* DataProcessor.CITY_CORRECTIONS, the class attribute
    heap,               \* the list objects alive: list id -> sequence of entries
    procs,              \* DataProcessor instances: id -> [errors, warnings] (list ids)
    file,               \* argument of the latest process_file
    result,             \* the ProcessingResult returned by the latest process_file
    raised,             \* TRUE when an exception left the latest call
    calls,              \* number of calls made so far
    kept,               \* results of earlier calls that the caller still holds
    addr,               \* address argument of the latest direct resolver call
    locations,          \* the local dict of the latest _parse_addresses at its return
    parsed,             \* value returned by the latest direct _parse_addresses
    route,              \* the latest direct _extract_route: arguments, value, warnings
    seen,               \* the direct resolver calls so far: [method, self, arg, val]
    last,               \* the latest direct call of a field parser or of setData
    current_file,       \* ModernMainWindow.current_file
    current_services,   \* ModernMainWindow.current_services, shared with the table model
    invoice_data,       \* the InvoiceData of the latest generation
    book,               \* the workbook the latest generation wrote
    edits               \* number of setData calls so far

vars == << CITY_CORRECTIONS, heap, procs, file, result, raised, calls, kept,
           addr, locations, parsed, route, seen, last,
           current_file, current_services, invoice_data, book, edits >>

\* The state of the main window and of the documents.
window == << current_file, current_services, invoice_data, book, edits >>

-----------------------------------------------------------------------------
(* Bounds of the model *)

MaxLines == 2       \* lines per address cell
MaxRows  == 2       \* rows per input table
MaxCalls == 3       \* calls of the processor's methods per behaviour
MaxProcs == 2       \* DataProcessor instances per behaviour
MaxKept  == 1       \* earlier results the caller holds on to
MaxEdits == 2       \* setData calls per behaviour
MaxFieldCalls == 2  \* direct calls of a field parser per behaviour

-----------------------------------------------------------------------------
(* Strings *)

\* The whitespace token: a line made of it alone is a blank line.
WS == " "

\* No match of a regular expression (a captured group is never empty).
NoMatch == ""

\* str.lower() on the strings that occur; every other string of the model is
\* already lower case.
Lower(s) ==
    CASE s = "Kirzhach"   -> "kirzhach"
      [] s = "Klin"     -> "klin"
      [] s = "Dmitrov"  -> "dmitrov"
      [] s = "DMITROV"  -> "dmitrov"
      [] s = "Sergiev"  -> "sergiev"
      [] s = "Posad"    -> "posad"
      [] s = "Odintsovo" -> "odintsovo"
      [] s = "Alenino"  -> "alenino"
      [] s = "Sergiev Posad" -> "sergiev posad"
      [] s = "Sergiev posad" -> "sergiev posad"
      [] s = "sergiev Posad" -> "sergiev posad"
      [] s = "Data"     -> "data"
      [] s = "DATA"     -> "data"
      [] s = "Voditel"  -> "voditel"
      [] s = "Avto"     -> "avto"
      [] s = "Adres vygruzki" -> "adres vygruzki"
      [] s = "Summa za reysy" -> "summa za reysy"
      [] s = "SUMMA ZA REYSY" -> "summa za reysy"
      [] s = "FIO"      -> "fio"
      [] OTHER          -> s

\* The tokens address lines are made of.
Vocabulary ==
    { "g.", "go", "gorod", "rayon", "s.", "selo", "serg.",
      "gorodskoy", "munitsipalnyy", "okrug",
      "Kirzhach", "kirzhach", "Klin", "Dmitrov", "DMITROV", "dmitrov",
      "Sergiev", "sergiev", "Posad", "posad", "Odintsovo", "Alenino",
      "kirzhachsk", "o", "ul." }

\* The longest prefix of a token made of the characters [А-Яа-я\-].
LeadRun(t) ==
    CASE t = "g."    -> "g"
      [] t = "s."    -> "s"
      [] t = "serg." -> "serg"
      [] t = "ul."   -> "ul"
      [] t = WS      -> NoMatch
      [] OTHER       -> t

\* The longest suffix of a token made of the characters [А-Яа-я\-].
TailRun(t) == IF t \in {"g.", "s.", "serg.", "ul.", WS} THEN NoMatch ELSE t

\* s1 + " " + s2, for the two words the allow-list entry Сергиев\s*Посад spans.
JoinWords(s1, s2) ==
    CASE s1 = "Sergiev" /\ s2 = "Posad" -> "Sergiev Posad"
      [] s1 = "Sergiev" /\ s2 = "posad" -> "Sergiev posad"
      [] s1 = "sergiev" /\ s2 = "Posad" -> "sergiev Posad"
      [] OTHER                          -> "sergiev posad"

\* F applied to the value of e: e is evaluated once, however often F uses it.
Then(e, F(_)) == CHOOSE r \in { F(x) : x \in { e } } : TRUE

\* The least j in 1..n with P(j), or 0: where re.search finds its match.
Leftmost(P(_), n) ==
    IF \E j \in 1..n : P(j)
    THEN CHOOSE j \in 1..n : P(j) /\ \A k \in 1..(j - 1) : ~P(k)
    ELSE 0

\* str.strip() of a line: leading and trailing whitespace removed.
RECURSIVE Strip(_)
Strip(line) ==
    IF line = << >> THEN line
    ELSE IF Head(line) = WS THEN Strip(Tail(line))
    ELSE IF line[Len(line)] = WS THEN Strip(SubSeq(line, 1, Len(line) - 1))
    ELSE line

-----------------------------------------------------------------------------
(* DataProcessor.CITY_CORRECTIONS and the extraction patterns *)

ORIGIN  == "Dmitrov"
UNKNOWN == "Neizvestnyy punkt"

\* The dictionary as written in the class body, in its insertion order.
CityCorrections ==
    << [abbr |-> "o",            city |-> "Odintsovo"],
       [abbr |-> "ievo",         city |-> "Sergiev Posad"],
       [abbr |-> "ievo-posadsk", city |-> "Sergiev Posad"],
       [abbr |-> "s. posad",     city |-> "Sergiev Posad"],
       [abbr |-> "s.posad",      city |-> "Sergiev Posad"],
       [abbr |-> "serg posad",   city |-> "Sergiev Posad"],
       [abbr |-> "serg. posad",  city |-> "Sergiev Posad"],
       [abbr |-> "sergievo",     city |-> "Sergiev Posad"],
       [abbr |-> "sergiev",      city |-> "Sergiev Posad"],
       [abbr |-> "kirzhachsk",     city |-> "Kirzhach"] >>

\* The lower-case token sequences in which \b<abbr>\b matches ('.' in an
\* abbreviation is the regular expression's wildcard, so "с.посад" also
\* matches the two words "с посад").
AbbrTokens(abbr) ==
    CASE abbr = "o"            -> { <<"o">> }
      [] abbr = "ievo"         -> { <<"ievo">> }
      [] abbr = "ievo-posadsk" -> { <<"ievo-posadsk">> }
      [] abbr = "s. posad"     -> { <<"s.", "posad">> }
      [] abbr = "s.posad"      -> { <<"s.posad">>, <<"s", "posad">> }
      [] abbr = "serg posad"   -> { <<"serg", "posad">> }
      [] abbr = "serg. posad"  -> { <<"serg.", "posad">> }
      [] abbr = "sergievo"     -> { <<"sergievo">> }
      [] abbr = "sergiev"      -> { <<"sergiev">> }
      [] abbr = "kirzhachsk"     -> { <<"kirzhachsk">> }
      [] OTHER                 -> { <<abbr>> }

\* address.lower()
LowerLine(line) == [j \in 1..Len(line) |-> Lower(line[j])]

\* re.search(rf'\b{abbr}\b', low), for low the lowered line
SearchAbbr(abbr, low) ==
    \E j \in 1..Len(low) : \E n \in 1..2 :
        /\ j + n - 1 <= Len(low)
        /\ SubSeq(low, j, j + n - 1) \in AbbrTokens(abbr)

\* re.search(rf'\b{abbr}\b', address.lower())
AbbrMatches(abbr, line) == SearchAbbr(abbr, LowerLine(line))

\* Tokens that end with one of го | г. | город (IGNORECASE).
EndsCityPrefix(t) == Lower(t) \in {"go", "g.", "gorod", "serg."}

\* Tokens that start with one of район | го (IGNORECASE).
StartsDistrictSuffix(t) == Lower(t) \in {"rayon", "go", "gorod", "gorodskoy"}

\* Tokens that end with one of с. | д. | п. | село | деревня | поселок.
EndsSettlementPrefix(t) == Lower(t) \in {"s.", "selo"}

\* The allow-list of pattern 1, lower case, single words.
KnownCities == {"volokolamsk", "odintsovo", "kirzhach", "alenino"}

At(line, j) == IF j >= 1 /\ j <= Len(line) THEN line[j] ELSE WS

\* patterns[0]: (?:го\s+|г\.\s*|город\s+|городской округ\s+)([А-Яа-я\-]+)
Pattern0(line) ==
    LET short(j) == EndsCityPrefix(line[j]) /\ LeadRun(At(line, j + 1)) # NoMatch
        long(j)  == /\ Lower(line[j]) = "gorodskoy"
                    /\ Lower(At(line, j + 1)) = "okrug"
                    /\ LeadRun(At(line, j + 2)) # NoMatch
    IN  Then(Leftmost(LAMBDA j : short(j) \/ long(j), Len(line)), LAMBDA j0 :
        IF j0 = 0 THEN NoMatch
        ELSE IF short(j0) THEN LeadRun(line[j0 + 1]) ELSE LeadRun(line[j0 + 2]))

\* patterns[1]: (?:^|\s)(Волоколамск|Одинцово|Сергиев\s*Посад|Киржач|Аленино)(?:\s|$|,)
Pattern1(line) ==
    LET one(j) == Lower(line[j]) \in KnownCities
        two(j) == Lower(line[j]) = "sergiev" /\ Lower(At(line, j + 1)) = "posad"
    IN  Then(Leftmost(LAMBDA j : one(j) \/ two(j), Len(line)), LAMBDA j0 :
        IF j0 = 0 THEN NoMatch
        ELSE IF one(j0) THEN line[j0] ELSE JoinWords(line[j0], line[j0 + 1]))

\* patterns[2]: ([А-Яа-я\-]+)(?:\s+(?:муниципальный округ|район|го))
Pattern2(line) ==
    LET suffix(j) == \/ StartsDistrictSuffix(At(line, j))
                     \/ /\ Lower(At(line, j)) = "munitsipalnyy"
                        /\ Lower(At(line, j + 1)) = "okrug"
    IN  Then(Leftmost(LAMBDA j : TailRun(line[j]) # NoMatch /\ suffix(j + 1),
                      Len(line)),
             LAMBDA j0 : IF j0 = 0 THEN NoMatch ELSE TailRun(line[j0]))

\* patterns[3]: (?:с\.|д\.|п\.|село|деревня|поселок)\s*([А-Яа-я\-]+)
Pattern3(line) ==
    Then(Leftmost(LAMBDA j : /\ EndsSettlementPrefix(line[j])
                             /\ LeadRun(At(line, j + 1)) # NoMatch,
                  Len(line)),
         LAMBDA j0 : IF j0 = 0 THEN NoMatch ELSE LeadRun(line[j0 + 1]))

\* re.search(patterns[i], address, re.IGNORECASE).group(1).strip()
PatternMatch(i, line) ==
    CASE i = 0 -> Pattern0(line)
      [] i = 1 -> Pattern1(line)
      [] i = 2 -> Pattern2(line)
      [] OTHER -> Pattern3(line)

NumPatterns == 4

-----------------------------------------------------------------------------
(* DataProcessor._parse_addresses *)

\* A Python dict as the sequence of its items in insertion order.
DictHas(d, k) == \E n \in 1..Len(d) : d[n].key = k

DictGet(d, k) == d[CHOOSE n \in 1..Len(d) : d[n].key = k].val

\* d[k] = v: a present key keeps its place, a new key goes last.
DictSet(d, k, v) ==
    IF DictHas(d, k)
    THEN [n \in 1..Len(d) |-> IF d[n].key = k THEN [key |-> k, val |-> v] ELSE d[n]]
    ELSE Append(d, [key |-> k, val |-> v])

\* Variant: the dict of the previous call is taken up again.
StaleLocations == locations

\* locations = {}
NewLocations == << >>

\* Variant: a corrected name gets the lowest rank.
RecordCorrectionLowest(locs, full_city) == DictSet(locs, full_city, 0)

\* locations[full_city] = 3
RecordCorrection(locs, full_city) == DictSet(locs, full_city, 3)

\* The check of known abbreviations of one line, entries n..Len(cc) of the
\* dictionary in order; low is address.lower(), the same at every entry.
RECURSIVE ApplyCorrections(_, _, _, _)
ApplyCorrections(locs, low, cc, n) ==
    IF n > Len(cc) THEN locs
    ELSE Then(IF SearchAbbr(cc[n].abbr, low)
              THEN RecordCorrection(locs, cc[n].city) ELSE locs,
              LAMBDA after : ApplyCorrections(after, low, cc, n + 1))

\* Variant: the origin is recorded like any city.
RecordPatternWithOrigin(locs, city, i) ==
    LET priority == 3 - i IN
    IF ~DictHas(locs, city) \/ DictGet(locs, city) < priority
    THEN DictSet(locs, city, priority) ELSE locs

\* Variant: the priority of the match is stored whatever is there.
RecordPatternOverwrite(locs, city, i) ==
    IF Lower(city) # "dmitrov" THEN DictSet(locs, city, 3 - i) ELSE locs

\* The body of "if match:" for patterns[i] and its captured city.
RecordPattern(locs, city, i) ==
    IF Lower(city) # "dmitrov"
    THEN LET priority == 3 - i IN
         IF ~DictHas(locs, city) \/ DictGet(locs, city) < priority
         THEN DictSet(locs, city, priority) ELSE locs
    ELSE locs

\* for i, pattern in enumerate(patterns): every pattern is searched, i..3.
RECURSIVE ApplyPatterns(_, _, _)
ApplyPatterns(locs, line, i) ==
    IF i >= NumPatterns THEN locs
    ELSE Then(PatternMatch(i, line), LAMBDA city :
         Then(IF city # NoMatch THEN RecordPattern(locs, city, i) ELSE locs,
              LAMBDA after : ApplyPatterns(after, line, i + 1)))

\* One iteration of "for address in addresses".
ParseLine(locs, rawline, cc) ==
    Then(Strip(rawline), LAMBDA address :
    IF address = << >> THEN locs
    ELSE Then(LowerLine(address), LAMBDA low :
         Then(ApplyCorrections(locs, low, cc, 1),
              LAMBDA corrected : ApplyPatterns(corrected, address, 0))))

RECURSIVE ParseLines(_, _, _)
ParseLines(locs, addresses, cc) ==
    IF addresses = << >> THEN locs
    ELSE Then(ParseLine(locs, Head(addresses), cc),
              LAMBDA after : ParseLines(after, Tail(addresses), cc))

\* Variant: an item goes before the items of its own priority.
RECURSIVE InsertBeforeEqual(_, _)
InsertBeforeEqual(srt, item) ==
    IF srt = << >> THEN << item >>
    ELSE IF Head(srt).val > item.val
         THEN << Head(srt) >> \o InsertBeforeEqual(Tail(srt), item)
         ELSE << item >> \o srt

\* sorted(..., key=lambda x: x[1], reverse=True): a stable sort, so items of
\* equal priority keep the order of the dict.
RECURSIVE InsertByPriority(_, _)
InsertByPriority(srt, item) ==
    IF srt = << >> THEN << item >>
    ELSE IF Head(srt).val >= item.val
         THEN << Head(srt) >> \o InsertByPriority(Tail(srt), item)
         ELSE << item >> \o srt

RECURSIVE SortedLocs(_)
SortedLocs(locs) ==
    IF locs = << >> THEN << >>
    ELSE Then(SortedLocs(SubSeq(locs, 1, Len(locs) - 1)),
              LAMBDA sorted : InsertByPriority(sorted, locs[Len(locs)]))

\* address_text.strip('"').split('\n'): an address text is its lines, with a
\* flag for the enclosing double quotes.
SplitLines(text) == text.lines

\* _parse_addresses(address_text): the dict at the return and the value returned.
ParseAddresses(text, cc) ==
    Then(ParseLines(NewLocations, SplitLines(text), cc), LAMBDA locs :
    Then(SortedLocs(locs), LAMBDA srt :
    [locations |-> locs, out |-> [n \in 1..Len(srt) |-> srt[n].key]]))

-----------------------------------------------------------------------------
(* Cells, and the warnings an extractor appends *)

\* Optional values: None and a present value.
None == << >>
Some(x) == << x >>

\* A missing cell (NaN / None / NaT), for which pd.isna is true.
NaN == [t |-> "nan"]
IsNa(cell) == cell.t = "nan"

\* A cell holding the string with the characters chars.
Text(chars) == [t |-> "str", v |-> chars]

\* A row label: a number, or a string.
NumIndex(n) == [num |-> TRUE,  v |-> n]
StrIndex    == [num |-> FALSE, v |-> 0]

\* Variant: the entry carries the label itself, not the label plus one.
WarnZeroBased(w, index, kind, call) ==
    IF index.num
    THEN [exc |-> FALSE, w |-> Append(w, [call |-> call, row |-> index.v, kind |-> kind])]
    ELSE [exc |-> TRUE,  w |-> w]

\* self.warnings.append(f"Строка {row_index + 1}: ..."): the f-string is
\* evaluated first, and index + 1 raises TypeError for a row label that is
\* not a number (a table whose index is not the default RangeIndex).  The
\* field call records the process_file call during which the entry was made,
\* 0 outside any.
Warn(w, index, kind, call) ==
    IF index.num
    THEN [exc |-> FALSE, w |-> Append(w, [call |-> call, row |-> index.v + 1, kind |-> kind])]
    ELSE [exc |-> TRUE,  w |-> w]

\* What an extractor hands back: a value, the warnings list after it, and
\* whether an exception is propagating instead.
Returns(val, w) == [exc |-> FALSE, val |-> val, w |-> w]
Raises(w)       == [exc |-> TRUE,  val |-> None, w |-> w]

\* Variant: the default is returned without a warning.
ReturnSilently(val, w, index, kind, call) == Returns(val, w)

\* self.warnings.append(...); return val
WarnReturn(val, w, index, kind, call) ==
    Then(Warn(w, index, kind, call),
         LAMBDA a : IF a.exc THEN Raises(a.w) ELSE Returns(val, a.w))

-----------------------------------------------------------------------------
(* DataProcessor._parse_date *)

IsLeap(y) == (y % 4 = 0 /\ y % 100 # 0) \/ y % 400 = 0

DaysIn(m, y) ==
    IF m = 2 THEN (IF IsLeap(y) THEN 29 ELSE 28)
    ELSE IF m \in {4, 6, 9, 11} THEN 30 ELSE 31

Digits == { "0", "1", "2", "3", "4", "5", "6", "7", "8", "9" }

DigitVal(c) ==
    CASE c = "0" -> 0 [] c = "1" -> 1 [] c = "2" -> 2 [] c = "3" -> 3
      [] c = "4" -> 4 [] c = "5" -> 5 [] c = "6" -> 6 [] c = "7" -> 7
      [] c = "8" -> 8 [] OTHER -> 9

\* int() of a sequence of digits (0 for none)
RECURSIVE DigitsVal(_)
DigitsVal(ds) ==
    IF ds = << >> THEN 0
    ELSE DigitsVal(SubSeq(ds, 1, Len(ds) - 1)) * 10 + DigitVal(ds[Len(ds)])

\* Variant: the format with slashes has the month first.
DateFormatsMonthFirst ==
    << << "%d", ".", "%m", ".", "%Y" >>,
       << "%Y", "-", "%m", "-", "%d" >>,
       << "%m", "/", "%d", "/", "%Y" >> >>

\* The formats, as directives and literal characters; a datetime is [y, m, d].
DateFormats ==
    << << "%d", ".", "%m", ".", "%Y" >>,
       << "%Y", "-", "%m", "-", "%d" >>,
       << "%d", "/", "%m", "/", "%Y" >> >>

\* The widths of the alternatives of a directive's regular expression, in
\* the order the expression lists them.
Widths(dir) == IF dir = "%Y" THEN << 4 >> ELSE << 2, 1 >>

\* s matches the regular expression of the directive:
\*   %d  3[0-1]|[1-2]\d|0[1-9]|[1-9]| [1-9]
\*   %m  1[0-2]|0[1-9]|[1-9]
\*   %Y  \d\d\d\d
Matches(dir, s) ==
    LET nz == Digits \ { "0" } IN
    CASE dir = "%d" ->
            \/ Len(s) = 2 /\ s[1] = "3" /\ s[2] \in { "0", "1" }
            \/ Len(s) = 2 /\ s[1] \in { "1", "2" } /\ s[2] \in Digits
            \/ Len(s) = 2 /\ s[1] \in { "0", " " } /\ s[2] \in nz
            \/ Len(s) = 1 /\ s[1] \in nz
      [] dir = "%m" ->
            \/ Len(s) = 2 /\ s[1] = "1" /\ s[2] \in { "0", "1", "2" }
            \/ Len(s) = 2 /\ s[1] = "0" /\ s[2] \in nz
            \/ Len(s) = 1 /\ s[1] \in nz
      [] OTHER -> Len(s) = 4 /\ \A n \in 1..4 : s[n] \in Digits

\* int(found[directive]), of a matched field
FieldVal(s) == DigitsVal(SelectSeq(s, LAMBDA c : c # " "))

\* The regular expression built from fmt matched against chars from pos on,
\* the directives before the k-th having given got: the fields found, or
\* None.  The whole string must be used up ("unconverted data remains").
RECURSIVE MatchFormat(_, _, _, _, _)
RECURSIVE TryWidths(_, _, _, _, _, _)
MatchFormat(chars, pos, fmt, k, got) ==
    IF k > Len(fmt) THEN (IF pos > Len(chars) THEN Some(got) ELSE None)
    ELSE IF fmt[k] \in { "%d", "%m", "%Y" } THEN TryWidths(chars, pos, fmt, k, got, 1)
    ELSE IF pos <= Len(chars) /\ chars[pos] = fmt[k]
         THEN MatchFormat(chars, pos + 1, fmt, k + 1, got)
         ELSE None

TryWidths(chars, pos, fmt, k, got, n) ==
    IF n > Len(Widths(fmt[k])) THEN None
    ELSE LET wd == Widths(fmt[k])[n]
             s  == SubSeq(chars, pos, pos + wd - 1)
         IN  IF pos + wd - 1 <= Len(chars) /\ Matches(fmt[k], s)
             THEN Then(MatchFormat(chars, pos + wd, fmt, k + 1,
                                   [got EXCEPT ![fmt[k]] = FieldVal(s)]),
                       LAMBDA rest : IF rest # None THEN rest
                                     ELSE TryWidths(chars, pos, fmt, k, got, n + 1))
             ELSE TryWidths(chars, pos, fmt, k, got, n + 1)

\* datetime.strptime(s, fmt): None stands for ValueError, which the
\* datetime constructor also raises for year 0 and for a day the month
\* does not have.
Strptime(s, fmt) ==
    Then(MatchFormat(s, 1, fmt, 1, [dir \in { "%d", "%m", "%Y" } |-> 0]), LAMBDA found :
    IF found = None THEN None
    ELSE LET y == found[1]["%Y"]
             m == found[1]["%m"]
             d == found[1]["%d"]
         IN  IF y >= 1 /\ d <= DaysIn(m, y) THEN Some([y |-> y, m |-> m, d |-> d])
             ELSE None)

\* for fmt in [...]: try: return strptime(...) except ValueError: continue
RECURSIVE TryFormats(_, _)
TryFormats(s, n) ==
    IF n > Len(DateFormats) THEN None
    ELSE IF Strptime(s, DateFormats[n]) # None THEN Strptime(s, DateFormats[n])
    ELSE TryFormats(s, n + 1)

\* Variant: nothing is returned when no format matches.
ParseDateOrNone(cell, index, w, now, call) ==
    IF IsNa(cell) THEN WarnReturn(now, w, index, "pustaya data", call)
    ELSE IF cell.t = "datetime" THEN Returns(cell.v, w)
    ELSE Then(TryFormats(cell.v, 1), LAMBDA got :
         IF got # None THEN Returns(got[1], w) ELSE Returns(None, w))

ParseDate(cell, index, w, now, call) ==
    IF IsNa(cell) THEN WarnReturn(now, w, index, "pustaya data", call)
    ELSE IF cell.t = "datetime" THEN Returns(cell.v, w)
    ELSE Then(TryFormats(cell.v, 1), LAMBDA got :
         IF got # None THEN Returns(got[1], w)
         \* the TypeError of the first append is caught by "except Exception",
         \* whose own append raises it again
         ELSE WarnReturn(now, w, index, "ne udalos raspoznat datu", call))

-----------------------------------------------------------------------------
(* DataProcessor._extract_driver_name, _extract_car_number *)

\* "НЕ УКАЗАН", as characters
NOT_SPECIFIED == << "N", "E", " ", "U", "K", "A", "Z", "A", "N" >>

\* s.split(',')[0]
RECURSIVE BeforeComma(_)
BeforeComma(chars) ==
    IF chars = << >> \/ Head(chars) = "," THEN << >>
    ELSE << Head(chars) >> \o BeforeComma(Tail(chars))

HasComma(chars) == \E n \in 1..Len(chars) : chars[n] = ","

\* Variant: the text before the comma is returned as it stands.
ExtractDriverNameUntrimmed(cell, index, w, call) ==
    IF IsNa(cell) THEN WarnReturn(NOT_SPECIFIED, w, index, "voditel ne ukazan", call)
    ELSE LET driver_str == cell.v IN
         IF HasComma(driver_str) THEN Returns(BeforeComma(driver_str), w)
         ELSE WarnReturn(driver_str, w, index, "ne udalos izvlech imya voditelya", call)

\* _extract_driver_name(driver_info, row_index)
ExtractDriverName(cell, index, w, call) ==
    IF IsNa(cell) THEN WarnReturn(NOT_SPECIFIED, w, index, "voditel ne ukazan", call)
    ELSE LET driver_str == cell.v IN
         IF HasComma(driver_str) THEN Returns(Strip(BeforeComma(driver_str)), w)
         ELSE WarnReturn(driver_str, w, index, "ne udalos izvlech imya voditelya", call)

\* The characters of [А-Я0-9] that occur in vehicle cells.
PlateChars == { "A", "B", "0", "1", "7" }

\* The longest run of plate characters starting at position n.
RECURSIVE PlateRun(_, _)
PlateRun(chars, n) ==
    IF n > Len(chars) \/ chars[n] \notin PlateChars THEN << >>
    ELSE << chars[n] >> \o PlateRun(chars, n + 1)

\* The position after the whitespace run starting at n.
RECURSIVE SkipSpace(_, _)
SkipSpace(chars, n) ==
    IF n <= Len(chars) /\ chars[n] = WS THEN SkipSpace(chars, n + 1) ELSE n

\* re.search(r'Газель\s+([А-Я0-9]+)', car_str).group(1), or None; the word
\* Газель is one symbol of the cell, "Gazel".
SearchPlate(chars) ==
    LET hit(j) == /\ chars[j] = "Gazel"
                  /\ SkipSpace(chars, j + 1) > j + 1
                  /\ PlateRun(chars, SkipSpace(chars, j + 1)) # << >>
    IN  Then(Leftmost(hit, Len(chars)), LAMBDA j0 :
        IF j0 = 0 THEN None ELSE Some(PlateRun(chars, SkipSpace(chars, j0 + 1))))

ExtractCarNumber(cell, index, w, call) ==
    IF IsNa(cell) THEN WarnReturn(NOT_SPECIFIED, w, index, "avtomobil ne ukazan", call)
    ELSE Then(SearchPlate(cell.v), LAMBDA match :
         IF match # None THEN Returns(match[1], w)
         ELSE WarnReturn(NOT_SPECIFIED, w, index, "ne udalos izvlech nomer avtomobilya", call))

-----------------------------------------------------------------------------
(* DataProcessor._parse_amount *)

\* Variant: the spaces stay.
CleanAmountKeepSpaces(chars) ==
    [n \in 1..Len(chars) |-> IF chars[n] = "," THEN "." ELSE chars[n]]

\* .replace(',', '.').replace(' ', '')
RECURSIVE CleanAmount(_)
CleanAmount(chars) ==
    IF chars = << >> THEN << >>
    ELSE IF Head(chars) = " " THEN CleanAmount(Tail(chars))
    ELSE << IF Head(chars) = "," THEN "." ELSE Head(chars) >> \o CleanAmount(Tail(chars))

RECURSIVE BeforeDot(_)
BeforeDot(chars) ==
    IF chars = << >> \/ Head(chars) = "." THEN << >>
    ELSE << Head(chars) >> \o BeforeDot(Tail(chars))

\* A Decimal is sign, coefficient and exponent: Decimal("0.00") = 0 * 10^-2.
Dec(sign, coef, exp) == [sign |-> sign, coef |-> coef, exp |-> exp]

ZERO_00 == Dec(0, 0, -2)

\* The values of Decimal that are not numbers of finite size: Infinity and
\* NaN, each with a sign.
Special(sign, name) == [sign |-> sign, special |-> name]
IsSpecial(d) == "special" \in DOMAIN d

\* Decimal(s) for a string of sign, digits and at most one point, and for
\* the words NaN and Infinity, signed or not; None stands for
\* decimal.InvalidOperation.
ParseDecimal(chars) ==
    LET signed == chars # << >> /\ Head(chars) \in {"-", "+"}
        sign   == IF signed /\ Head(chars) = "-" THEN 1 ELSE 0
        body   == IF signed THEN Tail(chars) ELSE chars
        int    == BeforeDot(body)
        frac   == SubSeq(body, Len(int) + 2, Len(body))
        ok     == /\ \A n \in 1..Len(int)  : int[n]  \in Digits
                  /\ \A n \in 1..Len(frac) : frac[n] \in Digits
                  /\ Len(int) + Len(frac) > 0
    IN  IF body \in { << "NaN" >>, << "Infinity" >> } THEN Some(Special(sign, body[1]))
        ELSE IF ok THEN Some(Dec(sign, DigitsVal(int \o frac), 0 - Len(frac)))
        ELSE None

\* Variant: the conversion is not inside try/except.
ParseAmountUncaught(cell, index, w, call) ==
    IF IsNa(cell) THEN WarnReturn(ZERO_00, w, index, "summa ne ukazana", call)
    ELSE Then(ParseDecimal(CleanAmount(cell.v)), LAMBDA got :
         IF got # None THEN Returns(got[1], w) ELSE Raises(w))

ParseAmount(cell, index, w, call) ==
    IF IsNa(cell) THEN WarnReturn(ZERO_00, w, index, "summa ne ukazana", call)
    ELSE Then(ParseDecimal(CleanAmount(cell.v)), LAMBDA got :
         IF got # None THEN Returns(got[1], w)
         ELSE WarnReturn(ZERO_00, w, index, "ne udalos preobrazovat summu", call))

-----------------------------------------------------------------------------
(* DataProcessor._extract_route *)

\* "not address_text" for a string: the empty string.
IsEmptyText(text) == ~text.quoted /\ text.lines = << << >> >>

\* Variant: one destination more is taken.
FirstFour(locs) == SubSeq(locs, 1, IF Len(locs) < 4 THEN Len(locs) ELSE 4)

\* locations[:3]
FirstThree(locs) == SubSeq(locs, 1, IF Len(locs) < 3 THEN Len(locs) ELSE 3)

FALLBACK_ROUTE == << ORIGIN, UNKNOWN >>

\* route = ["Дмитров"]; route.extend(locations[:3])
AssembleRoute(locs) == << ORIGIN >> \o FirstThree(locs)

ExtractRoute(cell, index, w, cc, call) ==
    IF IsNa(cell) \/ IsEmptyText(cell.v)
    THEN WarnReturn(FALLBACK_ROUTE, w, index, "adres ne ukazan", call)
    ELSE Then(ParseAddresses(cell.v, cc).out, LAMBDA locs :
         IF locs = << >>
         THEN WarnReturn(FALLBACK_ROUTE, w, index, "ne udalos izvlech marshrut", call)
         ELSE Returns(AssembleRoute(locs), w))

-----------------------------------------------------------------------------
(* DataProcessor._process_row, _process_data *)

\* The required column labels, as _validate_structure lists them.
COL_DATE    == "Data"
COL_DRIVER  == "Voditel"
COL_CAR     == "Avto"
COL_ADDRESS == "Adres vygruzki"
COL_AMOUNT  == "Summa za reysy"

\* A column label: a string, given as the pieces it is the concatenation of,
\* or a number (a table read without a header row).
StrLabel(parts) == [t |-> "str", v |-> parts]
IntLabel(n)     == [t |-> "int", v |-> << n >>]

\* row.get(col): the cell under the column labelled col, None when absent.
RowGet(columns, row, col) ==
    IF \E n \in 1..Len(columns) : columns[n] = StrLabel(<< col >>)
    THEN row[CHOOSE n \in 1..Len(columns) : columns[n] = StrLabel(<< col >>)]
    ELSE NaN

\* A TransportService built without the price keyword: price keeps the
\* dataclass default Decimal("0.00").
TransportServiceDefaultPrice(date, driver_name, car_number, rt, price, amount) ==
    [ date |-> date, driver_name |-> driver_name, car_number |-> car_number,
      route |-> rt, quantity |-> 1, unit |-> << "sht." >>, price |-> ZERO_00,
      amount |-> amount ]

\* TransportService(date=, driver_name=, car_number=, route=, price=, amount=)
\* with the dataclass defaults quantity = 1 and unit = "шт."
TransportService(date, driver_name, car_number, rt, price, amount) ==
    [ date |-> date, driver_name |-> driver_name, car_number |-> car_number,
      route |-> rt, quantity |-> 1, unit |-> << "sht." >>, price |-> price,
      amount |-> amount ]

\* _process_row(row, index): Some(service), or None, or an exception.
ProcessRow(columns, row, index, w, cc, now, call) ==
    Then(ParseDate(RowGet(columns, row, COL_DATE), index, w, now, call), LAMBDA date :
    IF date.exc THEN Raises(date.w)
    \* "if not date: return None" is never taken: a datetime is never falsy
    ELSE
    Then(ExtractDriverName(RowGet(columns, row, COL_DRIVER), index, date.w, call), LAMBDA driver :
    IF driver.exc THEN Raises(driver.w)
    ELSE
    Then(ExtractCarNumber(RowGet(columns, row, COL_CAR), index, driver.w, call), LAMBDA car :
    IF car.exc THEN Raises(car.w)
    ELSE
    Then(ExtractRoute(RowGet(columns, row, COL_ADDRESS), index, car.w, cc, call), LAMBDA rt :
    IF rt.exc THEN Raises(rt.w)
    ELSE
    Then(ParseAmount(RowGet(columns, row, COL_AMOUNT), index, rt.w, call), LAMBDA amount :
    IF amount.exc THEN Raises(amount.w)
    ELSE Returns(Some(TransportService(date.val, driver.val, car.val, rt.val,
                                       amount.val, amount.val)),
                 amount.w))))))

\* The label df.iterrows() gives the k-th row: k - 1 under the default
\* RangeIndex, the row's own label otherwise.
IndexOf(df, k) == IF df.index = "range" THEN NumIndex(k - 1) ELSE StrIndex

\* One iteration of the loop of _process_data: try / except Exception.
ProcessDataStep(df, k, acc, cc, now, call) ==
    Then(ProcessRow(df.columns, df.rows[k], IndexOf(df, k), acc.w, cc, now, call), LAMBDA got :
    IF ~got.exc
    \* "if service:" holds of every TransportService
    THEN [exc |-> FALSE, w |-> got.w,
          val |-> IF got.val # None THEN Append(acc.val, got.val[1]) ELSE acc.val]
    ELSE Then(Warn(got.w, IndexOf(df, k), "oshibka v stroke", call), LAMBDA a :
         [exc |-> a.exc, w |-> a.w, val |-> acc.val]))

\* _process_data(df) from row k on: the services, the warnings, and whether an
\* exception left the loop.
RECURSIVE ProcessRows(_, _, _, _, _, _)
ProcessRows(df, k, acc, cc, now, call) ==
    IF acc.exc \/ k > Len(df.rows) THEN acc
    ELSE Then(ProcessDataStep(df, k, acc, cc, now, call),
              LAMBDA step : ProcessRows(df, k + 1, step, cc, now, call))

ProcessData(df, w, cc, now, call) ==
    ProcessRows(df, 1, [exc |-> FALSE, val |-> << >>, w |-> w], cc, now, call)

-----------------------------------------------------------------------------
(* DataProcessor._load_data, _validate_structure *)

ENCODINGS == << "utf-8", "cp1251", "latin1", "ISO-8859-1" >>

\* The reader called first.
EXCEL == "openpyxl"

\* Variant: the loop goes on after a decoding that succeeds and the table of
\* the last one that does is returned.
RECURSIVE TryEveryEncoding(_, _, _)
TryEveryEncoding(f, n, tried) ==
    IF n > Len(ENCODINGS) THEN [df |-> None, tried |-> tried]
    ELSE LET rest == TryEveryEncoding(f, n + 1, Append(tried, ENCODINGS[n])) IN
         IF rest.df # None \/ f.csv[n] = None THEN rest
         ELSE [df |-> f.csv[n], tried |-> rest.tried]

\* A file is what each reader makes of it: f.excel for pd.read_excel and
\* f.csv[n] for pd.read_csv with ENCODINGS[n]; None where the reader raises.
\* The loop "for encoding in encodings" from the n-th encoding on: the table
\* returned, if any, and the readers called so far.
RECURSIVE TryEncodings(_, _, _)
TryEncodings(f, n, tried) ==
    IF n > Len(ENCODINGS) THEN [df |-> None, tried |-> tried]
    ELSE IF f.csv[n] # None THEN [df |-> f.csv[n], tried |-> Append(tried, ENCODINGS[n])]
    ELSE TryEncodings(f, n + 1, Append(tried, ENCODINGS[n]))

\* _load_data(file_path): the table or None, self.errors, the readers called.
LoadData(f, errs, call) ==
    IF f.excel # None THEN [df |-> f.excel, errs |-> errs, tried |-> << EXCEL >>]
    ELSE Then(TryEncodings(f, 1, << EXCEL >>), LAMBDA got :
         IF got.df # None THEN [df |-> got.df, errs |-> errs, tried |-> got.tried]
         ELSE [df |-> None,
               errs |-> Append(errs, [call |-> call, kind |-> "ne udalos zagruzit fayl",
                                      cols |-> << >>]),
               tried |-> got.tried])

REQUIRED_COLUMNS == << COL_DATE, COL_DRIVER, COL_CAR, COL_ADDRESS, COL_AMOUNT >>

HasColumn(columns, col) == \E k \in 1..Len(columns) : columns[k] = StrLabel(<< col >>)

\* Variant: the substring test without lower().
FuzzyMatchCaseSensitive(col, actual_col) ==
    /\ actual_col.t = "str"
    /\ \E n \in 1..Len(actual_col.v) : actual_col.v[n] = col

\* isinstance(actual_col, str) and col.lower() in actual_col.lower()
FuzzyMatch(col, actual_col) ==
    /\ actual_col.t = "str"
    /\ \E n \in 1..Len(actual_col.v) : Lower(actual_col.v[n]) = Lower(col)

\* df.rename(columns={actual_col: col}, inplace=True)
Rename(columns, actual_col, col) ==
    [k \in 1..Len(columns) |->
        IF columns[k] = actual_col THEN StrLabel(<< col >>) ELSE columns[k]]

\* Variant: only the first absent column is reported.
FirstMissingOnly(columns, n, missing) ==
    LET absent == SelectSeq(REQUIRED_COLUMNS,
                            LAMBDA col : ~\E k \in 1..Len(columns) : FuzzyMatch(col, columns[k]))
    IN  [columns |-> columns,
         missing |-> SubSeq(absent, 1, IF absent = << >> THEN 0 ELSE 1)]

\* The loop "for col in required_columns", from the n-th required column on.
RECURSIVE CheckColumns(_, _, _)
CheckColumns(columns, n, missing) ==
    IF n > Len(REQUIRED_COLUMNS) THEN [columns |-> columns, missing |-> missing]
    ELSE LET col == REQUIRED_COLUMNS[n] IN
         IF HasColumn(columns, col) THEN CheckColumns(columns, n + 1, missing)
         ELSE Then(Leftmost(LAMBDA k : FuzzyMatch(col, columns[k]), Len(columns)),
                   LAMBDA k0 :
              IF k0 = 0 THEN CheckColumns(columns, n + 1, Append(missing, col))
              ELSE Then(Rename(columns, columns[k0], col),
                        LAMBDA renamed : CheckColumns(renamed, n + 1, missing)))

\* _validate_structure(df): its verdict, the table with its columns renamed
\* in place, and self.errors.
ValidateStructure(df, errs, call) ==
    Then(CheckColumns(df.columns, 1, << >>), LAMBDA chk :
    [ ok   |-> chk.missing = << >>,
      df   |-> [df EXCEPT !.columns = chk.columns],
      errs |-> IF chk.missing # << >>
               THEN Append(errs, [call |-> call, kind |-> "otsutstvuyut kolonki",
                                  cols |-> chk.missing])
               ELSE errs ])

-----------------------------------------------------------------------------
(* List objects, ProcessingResult, DataProcessor.process_file *)

\* The id a new list object gets: the least one not in use.
NewId(h) ==
    CHOOSE id \in 1..(Cardinality(DOMAIN h) + 1) :
        id \notin DOMAIN h /\ \A j \in 1..(id - 1) : j \in DOMAIN h

\* "[]" evaluated: the heap with a new empty list, and its id.
NewList(h) == Then(NewId(h), LAMBDA id : [h |-> h @@ (id :> << >>), ref |-> id])

\* Variant: the list is emptied in place (old.clear()) and stays bound.
ClearList(h, old) == [h |-> [h EXCEPT ![old] = << >>], ref |-> old]

\* self.errors = [] / self.warnings = []: the attribute is bound to a new
\* list; old is the list it was bound to.
ResetList(h, old) == NewList(h)

\* ProcessingResult(success=, message=, data=, errors=, warnings=): an argument
\* left out (None here) takes the dataclass default, for the two lists a new
\* list from default_factory.  Yields the heap and the result.
ProcessingResult(h, success, message, data, errors, warnings) ==
    Then(IF errors = None THEN NewList(h) ELSE [h |-> h, ref |-> errors[1]], LAMBDA e :
    Then(IF warnings = None THEN NewList(e.h) ELSE [h |-> e.h, ref |-> warnings[1]], LAMBDA w :
    [ h |-> w.h,
      result |-> [ success |-> success, message |-> message, data |-> data,
                   errors |-> e.ref, warnings |-> w.ref ] ]))

\* The try block of process_file, given self.errors and self.warnings (list
\* ids) after the two resets: the heap, and the result returned or exc for an
\* exception on its way to the except clause.
ProcessFileTry(h, self, f, cc, now, call) ==
    Then(LoadData(f, h[self.errors], call), LAMBDA loaded :
    Then([h EXCEPT ![self.errors] = loaded.errs], LAMBDA h1 :
    IF loaded.df = None
    THEN ProcessingResult(h1, FALSE, [text |-> "Ne udalos zagruzit fayl", n |-> 0],
                          None, Some(self.errors), None) @@ [exc |-> FALSE]
    ELSE
    Then(ValidateStructure(loaded.df[1], h1[self.errors], call), LAMBDA valid :
    Then([h1 EXCEPT ![self.errors] = valid.errs], LAMBDA h2 :
    IF ~valid.ok
    THEN ProcessingResult(h2, FALSE, [text |-> "Nevernaya struktura fayla", n |-> 0],
                          None, Some(self.errors), None) @@ [exc |-> FALSE]
    ELSE
    Then(ProcessData(valid.df, h2[self.warnings], cc, now, call), LAMBDA done :
    Then([h2 EXCEPT ![self.warnings] = done.w], LAMBDA h3 :
    IF done.exc THEN [h |-> h3, exc |-> TRUE]
    ELSE ProcessingResult(h3, TRUE, [text |-> "Obrabotano zapisey", n |-> Len(done.val)],
                          Some(done.val), None, Some(self.warnings)) @@ [exc |-> FALSE]))))))

\* Variant: no except clause, the exception goes on to the caller.
Reraise(tried, self, call) == tried

\* Variant: the except clause returns a result without recording the error.
ExceptWithoutError(tried, self, call) ==
    IF ~tried.exc THEN tried
    ELSE ProcessingResult(tried.h, FALSE, [text |-> "Kriticheskaya oshibka", n |-> 0],
                          None, None, None) @@ [exc |-> FALSE]

\* except Exception as e: self.errors.append(str(e)); return ProcessingResult(...)
ProcessFileExcept(tried, self, call) ==
    IF ~tried.exc THEN tried
    ELSE ProcessingResult(
             [tried.h EXCEPT ![self.errors] =
                 Append(@, [call |-> call, kind |-> "TypeError", cols |-> << >>])],
             FALSE, [text |-> "Kriticheskaya oshibka", n |-> 0],
             None, Some(self.errors), None) @@ [exc |-> FALSE]

\* process_file(file_path) on the instance whose attributes are self0.
ProcessFileCall(h, self0, f, cc, now, call) ==
    Then(ResetList(h, self0.errors), LAMBDA e :
    Then(ResetList(e.h, self0.warnings), LAMBDA w :
    Then([errors |-> e.ref, warnings |-> w.ref], LAMBDA self :
    Then(ProcessFileTry(w.h, self, f, cc, now, call), LAMBDA tried :
    ProcessFileExcept(tried, self, call) @@ [self |-> self]))))

-----------------------------------------------------------------------------
(* Decimal arithmetic, float and the formats of numbers and dates *)

RECURSIVE Pow10(_)
Pow10(n) == IF n = 0 THEN 1 ELSE 10 * Pow10(n - 1)

Min(a, b) == IF a < b THEN a ELSE b
Abs(n) == IF n < 0 THEN 0 - n ELSE n

\* The coefficient of d, signed, in units of 10^e (e at most d.exp).
Units(d, e) == (IF d.sign = 1 THEN 0 - d.coef ELSE d.coef) * Pow10(d.exp - e)

\* Decimal.__add__: exact; the exponent is the smaller one; a zero sum is
\* negative only when both operands are.
DecAdd(a, b) ==
    LET e == Min(a.exp, b.exp) IN
    Then(Units(a, e) + Units(b, e), LAMBDA u :
    Dec(IF u < 0 \/ (u = 0 /\ a.sign = 1 /\ b.sign = 1) THEN 1 ELSE 0, Abs(u), e))

\* Decimal.__mul__ raises InvalidOperation: Infinity times 0.
MulRaises(a, n) == IsSpecial(a) /\ a.special = "Infinity" /\ n = 0

\* Decimal.__mul__ with an int, where it does not raise: the signs combine,
\* the exponent stays; NaN gives itself, Infinity an Infinity.
DecMulInt(a, n) ==
    IF IsSpecial(a)
    THEN (IF a.special = "NaN" THEN a
          ELSE Special(IF (a.sign = 1) # (n < 0) THEN 1 ELSE 0, a.special))
    ELSE Dec(IF (a.sign = 1) # (n < 0) THEN 1 ELSE 0, a.coef * Abs(n), a.exp)

\* float(x): the value without the exponent it was written with (every
\* number of the model has an exact or a correctly rounded double, which
\* prints as the same decimal).
RECURSIVE Float(_)
Float(x) ==
    IF x.coef = 0 THEN Dec(x.sign, 0, 0)
    ELSE IF x.exp < 0 /\ x.coef % 10 = 0 THEN Float(Dec(x.sign, x.coef \div 10, x.exp + 1))
    ELSE IF x.exp > 0 THEN Dec(x.sign, x.coef * Pow10(x.exp), 0)
    ELSE x

\* f"{x:,.2f}": the sign, the integer part and two decimals, rounded half
\* to even.
Format2f(x) ==
    LET cents ==
            IF x.exp >= -2 THEN x.coef * Pow10(x.exp + 2)
            ELSE LET unit == Pow10(0 - x.exp - 2)
                     q    == x.coef \div unit
                     r    == x.coef % unit
                 IN  IF 2 * r > unit \/ (2 * r = unit /\ q % 2 = 1) THEN q + 1 ELSE q
    IN  [ minus |-> x.sign = 1, int |-> cents \div 100, frac |-> cents % 100 ]

\* int(amount) of a float: towards zero.
IntOf(x) == LET f == Float(x) IN
            (IF f.sign = 1 THEN -1 ELSE 1) * (IF f.exp < 0 THEN f.coef \div Pow10(0 - f.exp) ELSE f.coef)

DigitChar(k) == << "0", "1", "2", "3", "4", "5", "6", "7", "8", "9" >>[k + 1]

\* k written with n digits.
RECURSIVE Zfill(_, _)
Zfill(k, n) == IF n = 0 THEN << >> ELSE Zfill(k \div 10, n - 1) \o << DigitChar(k % 10) >>

\* date.strftime("%d.%m.%Y")
Strftime(date) ==
    Zfill(date.d, 2) \o << "." >> \o Zfill(date.m, 2) \o << "." >> \o Zfill(date.y, 4)

-----------------------------------------------------------------------------
(* models.py: TransportService.description, InvoiceData, ActData *)

\* " - ".join(self.route)
RECURSIVE JoinRoute(_)
JoinRoute(rt) ==
    IF rt = << >> THEN << >>
    ELSE IF Len(rt) = 1 THEN << rt[1] >>
    ELSE << rt[1], WS, "-", WS >> \o JoinRoute(Tail(rt))

\* The word after which the route is written: "маршрут".
ROUTE_MARK == "marshrut"

\* TransportService.description, as the tokens of the f-string.
Description(service) ==
    << "Transportnye uslugi", WS >> \o Strftime(service.date)
        \o << WS, "vodit.", WS >> \o service.driver_name
        \o << ",", WS, "a/m Gazel", WS >> \o service.car_number
        \o << ",", WS, ROUTE_MARK, WS >> \o JoinRoute(service.route)

InvoiceData(number, date, customer, customer_details, services) ==
    [ number |-> number, date |-> date, customer |-> customer,
      customer_details |-> customer_details, services |-> services ]

\* ActData inherits every field and property of InvoiceData.
ActData(number, date, customer, customer_details, services) ==
    InvoiceData(number, date, customer, customer_details, services)

\* sum(service.amount for service in self.services): the int 0, written
\* here as the Decimal 0, plus each amount in turn.
RECURSIVE SumAmounts(_, _)
SumAmounts(acc, services) ==
    IF services = << >> THEN acc
    ELSE Then(DecAdd(acc, Head(services).amount), LAMBDA a : SumAmounts(a, Tail(services)))

\* Variant: the first service is left out of the sum.
TotalAmountTail(data) ==
    SumAmounts(Dec(0, 0, 0), IF data.services = << >> THEN << >> ELSE Tail(data.services))

\* InvoiceData.total_amount
TotalAmount(data) == SumAmounts(Dec(0, 0, 0), data.services)

\* InvoiceData.services_count
ServicesCount(data) == Len(data.services)

MONTHS ==
    << "yanvarya", "fevralya", "marta", "aprelya", "maya", "iyunya",
       "iyulya", "avgusta", "sentyabrya", "oktyabrya", "noyabrya", "dekabrya" >>

\* InvoiceData.date_str
DateStrOf(data) == << data.date.d, MONTHS[data.date.m], data.date.y >>

-----------------------------------------------------------------------------
(* ModernTableModel.setData *)

\* The values an editor hands to setData: a string, an int, None.
IntValue(n) == [t |-> "int", v |-> n]
NoneValue   == [t |-> "none"]

\* The decimal digits of n > 0.
RECURSIVE DigitsOf(_)
DigitsOf(n) == IF n = 0 THEN << >> ELSE DigitsOf(n \div 10) \o << DigitChar(n % 10) >>

\* str(value)
StrOf(value) ==
    CASE value.t = "str" -> value.v
      [] value.t = "int" -> IF value.v = 0 THEN << "0" >>
                            ELSE (IF value.v < 0 THEN << "-" >> ELSE << >>) \o DigitsOf(Abs(value.v))
      [] OTHER           -> << "N", "o", "n", "e" >>

\* int(value): None stands for ValueError (a string that is no integer) and
\* for TypeError (None).
IntOfValue(value) ==
    CASE value.t = "int" -> Some(value.v)
      [] value.t = "str" ->
            LET body   == Strip(value.v)
                signed == body # << >> /\ body[1] \in { "-", "+" }
                ds     == IF signed THEN Tail(body) ELSE body
            IN  IF ds # << >> /\ \A n \in 1..Len(ds) : ds[n] \in Digits
                THEN Some((IF signed /\ body[1] = "-" THEN -1 ELSE 1) * DigitsVal(ds))
                ELSE None
      [] OTHER -> None

\* s.split(sep): the pieces between the occurrences of sep.
RECURSIVE SplitAt(_, _)
SplitAt(s, sep) ==
    Then(Leftmost(LAMBDA j : s[j] = sep, Len(s)), LAMBDA j0 :
    IF j0 = 0 THEN << s >>
    ELSE << SubSeq(s, 1, j0 - 1) >> \o SplitAt(SubSeq(s, j0 + 1, Len(s)), sep))

\* The string a stripped piece spells; the pieces of several words that
\* occur are the spellings of Сергиев Посад.
PieceName(piece) ==
    CASE piece = << >>   -> ""
      [] Len(piece) = 1  -> piece[1]
      [] OTHER           -> JoinWords(piece[1], piece[Len(piece)])

\* [s.strip() for s in route_str.split("-")]
RouteOf(route_str) ==
    LET pieces == SplitAt(route_str, "-")
    IN  [n \in 1..Len(pieces) |-> PieceName(Strip(pieces[n]))]

\* service._description = ...: an attribute the dataclass does not declare.
SetDescription(service, text) ==
    [k \in DOMAIN service \cup { "_description" } |->
        IF k = "_description" THEN text ELSE service[k]]

\* col == 1: the route is rewritten from the text after the first "маршрут".
EditDescription(service, value) ==
    LET text  == StrOf(value)
        sv    == SetDescription(service, text)
    IN  IF \E n \in 1..Len(text) : text[n] = ROUTE_MARK
        THEN Then(Strip(SplitAt(text, ROUTE_MARK)[2]), LAMBDA route_str :
             IF route_str # << >> THEN [sv EXCEPT !.route = RouteOf(route_str)] ELSE sv)
        ELSE sv

\* What a branch of setData leaves: the service, edited in place, and
\* whether the branch goes on to "return True".
Edited(service)   == [ok |-> TRUE,  service |-> service]
Rejected(service) == [ok |-> FALSE, service |-> service]

\* col == 2: int(value) raises ValueError or TypeError before anything is
\* assigned; the product raises InvalidOperation, which the outer handler
\* catches, after the quantity is assigned.
EditQuantity(service, value) ==
    Then(IntOfValue(value), LAMBDA quantity :
    IF quantity = None THEN Rejected(service)
    ELSE Then([service EXCEPT !.quantity = quantity[1]], LAMBDA sv :
         IF MulRaises(sv.price, sv.quantity) THEN Rejected(sv)
         ELSE Edited([sv EXCEPT !.amount = DecMulInt(sv.price, sv.quantity)])))

\* col == 3
EditUnit(service, value) == [service EXCEPT !.unit = StrOf(value)]

\* col == 4: Decimal(str(value)) raises InvalidOperation before anything is
\* assigned; the product raises it after the price is assigned.
EditPrice(service, value) ==
    Then(ParseDecimal(Strip(StrOf(value))), LAMBDA price :
    IF price = None THEN Rejected(service)
    ELSE Then([service EXCEPT !.price = price[1]], LAMBDA sv :
         IF MulRaises(sv.price, sv.quantity) THEN Rejected(sv)
         ELSE Edited([sv EXCEPT !.amount = DecMulInt(sv.price, sv.quantity)])))

\* setData(index, value, role) for an index of the given row and column
\* (both from 0): the list of services after it, and the value returned.
SetData(services, valid, role, row, col, value) ==
    IF ~valid \/ role # "EditRole" THEN [services |-> services, ret |-> FALSE]
    ELSE IF row + 1 > Len(services)                       \* IndexError, caught
    THEN [services |-> services, ret |-> FALSE]
    ELSE LET service == services[row + 1]
             edited  == CASE col = 1 -> Edited(EditDescription(service, value))
                          [] col = 2 -> EditQuantity(service, value)
                          [] col = 3 -> Edited(EditUnit(service, value))
                          [] col = 4 -> EditPrice(service, value)
                          [] OTHER   -> Edited(service)
         IN  [services |-> [services EXCEPT ![row + 1] = edited.service], ret |-> edited.ok]

-----------------------------------------------------------------------------
(* InvoiceTemplate, ActTemplate, DocumentGenerator *)

\* A worksheet is the values of its cells, by column letter and row number.
\* The cells that hold only company details and fixed captions, and the
\* fonts, borders, merges and sizes, are left out.
NewSheet == [k \in { } |-> 0]

\* sheet[f'{col}{row}'] = value
Put(sheet, col, row, value) == (<< col, row >> :> value) @@ sheet

\* CompanyDetails.full_details and bank_details of the customer in the
\* configuration.
CUSTOMER_FULL == "customer, INN"
CUSTOMER_BANK == "customer, r/s"

\* _amount_to_words(amount): the integer part in words when num2words can be
\* imported, else the number with two decimals.
AmountToWords(amount, words) ==
    IF words THEN [words |-> IntOf(amount), kopecks |-> "00"]
    ELSE [number |-> Format2f(amount), kopecks |-> "00"]

\* The six cells of the line of services[i + 1] in the given row, as both
\* templates and _fill_services_table write them.
LineCells(sheet, services, i, row) ==
    LET service == services[i + 1] IN
    (<< "A", row >> :> i + 1) @@ (<< "B", row >> :> Description(service))
    @@ (<< "C", row >> :> service.quantity) @@ (<< "D", row >> :> service.unit)
    @@ (<< "E", row >> :> Float(service.price)) @@ (<< "F", row >> :> Float(service.amount))
    @@ sheet

\* InvoiceTemplate._fill_services_table: for i, service in enumerate(...)
RECURSIVE InvoiceFillServices(_, _, _)
InvoiceFillServices(sheet, data, i) ==
    IF i >= Len(data.services) THEN sheet
    ELSE Then(LineCells(sheet, data.services, i, 17 + i), LAMBDA sh :
         InvoiceFillServices(sh, data, i + 1))

\* InvoiceTemplate._create_totals_section
InvoiceTotals(sheet, data, words) ==
    LET start_row == 17 + Len(data.services) IN
    Then(TotalAmount(data), LAMBDA total :
    (<< "A", start_row >> :> "Itogo:") @@ (<< "F", start_row >> :> Float(total))
    @@ (<< "A", start_row + 1 >> :> "Bez naloga (NDS)") @@ (<< "F", start_row + 1 >> :> "-")
    @@ (<< "A", start_row + 2 >> :>
            << "Vsego naimenovaniy", ServicesCount(data), "na summu", Format2f(total) >>)
    @@ (<< "A", start_row + 3 >> :> AmountToWords(Float(total), words))
    @@ sheet)

\* InvoiceTemplate.create
InvoiceCreate(sheet, data, words) ==
    Then(Put(sheet, "A", 10, << "Schet na oplatu No", data.number, "ot", DateStrOf(data) >>),
         LAMBDA s1 :
    Then(Put(s1, "C", 14, IF data.customer # "" THEN data.customer ELSE CUSTOMER_FULL),
         LAMBDA s2 :
    Then(InvoiceFillServices(s2, data, 0), LAMBDA s3 : InvoiceTotals(s3, data, words))))

\* ActTemplate._fill_services_table
RECURSIVE ActFillServices(_, _, _)
ActFillServices(sheet, data, i) ==
    IF i >= Len(data.services) THEN sheet
    ELSE Then(LineCells(sheet, data.services, i, 11 + i), LAMBDA sh :
         ActFillServices(sh, data, i + 1))

\* ActTemplate._create_totals_section
ActTotals(sheet, data, words) ==
    LET start_row == 11 + Len(data.services) IN
    Then(TotalAmount(data), LAMBDA total :
    (<< "A", start_row >> :> "Itogo:") @@ (<< "F", start_row >> :> Float(total))
    @@ (<< "A", start_row + 1 >> :> "Bez naloga (NDS)") @@ (<< "F", start_row + 1 >> :> "-")
    @@ (<< "A", start_row + 3 >> :>
            << "Vsego okazano uslug", ServicesCount(data), "na summu", Format2f(total) >>)
    @@ (<< "A", start_row + 4 >> :> AmountToWords(Float(total), words))
    @@ sheet)

\* ActTemplate.create
ActCreate(sheet, data, words) ==
    Then(Put(sheet, "A", 1, << "Akt No", data.number, "ot", DateStrOf(data) >>), LAMBDA s1 :
    Then(Put(s1, "C", 6, IF data.customer # "" THEN data.customer ELSE CUSTOMER_FULL),
         LAMBDA s2 :
    Then(Put(s2, "C", 7, IF data.customer_details # None THEN data.customer_details[1]
                         ELSE CUSTOMER_BANK), LAMBDA s3 :
    Then(Put(s3, "C", 8, << "Po schetu No", data.number, "ot", DateStrOf(data) >>), LAMBDA s4 :
    Then(ActFillServices(s4, data, 0), LAMBDA s5 : ActTotals(s5, data, words))))))

\* A workbook is its sheets by name: "Счет" and "Акт".
SHEET_INVOICE == "Schet"
SHEET_ACT     == "Akt"

\* Variant: the act is built without the last service.
ActDataOfShort(inv) ==
    ActData(inv.number, inv.date, inv.customer, inv.customer_details,
            SubSeq(inv.services, 1, Len(inv.services) - 1))

\* The act's data, built from the invoice's.
ActDataOf(inv) ==
    ActData(inv.number, inv.date, inv.customer,
            inv.customer_details, inv.services)

\* DocumentGenerator.generate_documents: the value returned and the workbook
\* written, if any; saved is whether wb.save succeeds.
GenerateDocuments(inv, saved, words) ==
    Then(InvoiceCreate(NewSheet, inv, words), LAMBDA invoice_sheet :
    Then(ActCreate(NewSheet, ActDataOf(inv), words), LAMBDA act_sheet :
    IF saved
    THEN [ret |-> TRUE, wb |-> Some((SHEET_INVOICE :> invoice_sheet) @@ (SHEET_ACT :> act_sheet))]
    ELSE [ret |-> FALSE, wb |-> None]))

\* DocumentGenerator._fill_services_table
RECURSIVE FillServicesTable(_, _, _, _)
FillServicesTable(sheet, services, start_row, i) ==
    IF i >= Len(services) THEN sheet
    ELSE Then(LineCells(sheet, services, i, start_row + i), LAMBDA sh :
         FillServicesTable(sh, services, start_row, i + 1))

\* DocumentGenerator._update_totals: the total is a float throughout.
UpdateTotals(sheet, data, start_row, words) ==
    Then(Float(TotalAmount(data)), LAMBDA total_amount :
    (<< "A", start_row >> :> "Itogo:") @@ (<< "F", start_row >> :> total_amount)
    @@ (<< "A", start_row + 1 >> :> "Bez naloga (NDS)") @@ (<< "F", start_row + 1 >> :> "-")
    @@ (<< "A", start_row + 2 >> :>
            << "Vsego naimenovaniy", ServicesCount(data), "na summu", Format2f(total_amount) >>)
    @@ (<< "A", start_row + 3 >> :> AmountToWords(total_amount, words))
    @@ sheet)

\* DocumentGenerator._fill_inv
FillInvoiceData(sheet, data, words) ==
    Then(Put(sheet, "A", 10, << "Schet na oplatu No", data.number, "ot", DateStrOf(data) >>),
         LAMBDA s1 :
    Then(IF data.customer # "" THEN Put(s1, "C", 14, data.customer) ELSE s1, LAMBDA s2 :
    Then(FillServicesTable(s2, data.services, 17, 0), LAMBDA s3 :
    UpdateTotals(s3, data, 17 + Len(data.services), words))))

\* DocumentGenerator._fill_act_data
FillActData(sheet, data, words) ==
    Then(Put(sheet, "A", 1, << "Akt No", data.number, "ot", DateStrOf(data) >>), LAMBDA s1 :
    Then(IF data.customer # "" THEN Put(s1, "C", 6, data.customer) ELSE s1, LAMBDA s2 :
    Then(Put(s2, "C", 8, << "Po schetu No", data.number, "ot", DateStrOf(data) >>), LAMBDA s3 :
    Then(FillServicesTable(s3, data.services, 11, 0), LAMBDA s4 :
    UpdateTotals(s4, data, 11 + Len(data.services), words)))))

\* DocumentGenerator.update_template: template is the workbook loaded.
UpdateTemplate(template, inv, saved, words) ==
    IF SHEET_INVOICE \notin DOMAIN template \/ SHEET_ACT \notin DOMAIN template
    THEN [ret |-> FALSE, wb |-> None]
    ELSE Then(FillInvoiceData(template[SHEET_INVOICE], inv, words), LAMBDA invoice_sheet :
         Then(FillActData(template[SHEET_ACT], ActDataOf(inv), words), LAMBDA act_sheet :
         IF saved
         THEN [ret |-> TRUE,
               wb |-> Some((SHEET_INVOICE :> invoice_sheet) @@ (SHEET_ACT :> act_sheet) @@ template)]
         ELSE [ret |-> FALSE, wb |-> None]))

-----------------------------------------------------------------------------
(* Inputs *)

\* Date cells: 15.03.2024 in the three formats, with a separator no format
\* has, as a datetime, and a day that does not exist.
D_DOT   == Text(<< "1", "5", ".", "0", "3", ".", "2", "0", "2", "4" >>)
D_ISO   == Text(<< "2", "0", "2", "4", "-", "0", "3", "-", "1", "5" >>)
D_SLASH == Text(<< "1", "5", "/", "0", "3", "/", "2", "0", "2", "4" >>)
D_DASH  == Text(<< "1", "5", "-", "0", "3", "-", "2", "0", "2", "4" >>)
D_FEB31 == Text(<< "3", "1", ".", "0", "2", ".", "2", "0", "2", "4" >>)
D_TIME  == [t |-> "datetime", v |-> [y |-> 2024, m |-> 3, d |-> 15]]

\* Leap day in the three formats and in a year that has none; day and
\* month of one digit; and strings no format matches: year first with
\* slashes, month 13, a year of two digits, a time after the date, a space
\* before it.
D_LEAP_DOT   == Text(<< "2", "9", ".", "0", "2", ".", "2", "0", "2", "4" >>)
D_LEAP_ISO   == Text(<< "2", "0", "2", "4", "-", "0", "2", "-", "2", "9" >>)
D_LEAP_SLASH == Text(<< "2", "9", "/", "0", "2", "/", "2", "0", "2", "4" >>)
D_NOLEAP     == Text(<< "2", "0", "2", "5", "-", "0", "2", "-", "2", "9" >>)
D_SHORT      == Text(<< "5", ".", "3", ".", "2", "0", "2", "4" >>)
D_YMD_SLASH  == Text(<< "2", "0", "2", "4", "/", "0", "3", "/", "1", "5" >>)
D_MONTH13    == Text(<< "1", "5", "/", "1", "3", "/", "2", "0", "2", "4" >>)
D_YEAR2      == Text(<< "1", "5", ".", "0", "3", ".", "2", "4" >>)
D_CLOCK      == Text(<< "2", "0", "2", "4", "-", "0", "3", "-", "1", "5", " ", "0", "0", ":", "0", "0" >>)
D_LEADING    == Text(<< " ", "1", "5", ".", "0", "3", ".", "2", "0", "2", "4" >>)

DateCells ==
    { NaN, D_TIME, D_DOT, D_ISO, D_SLASH, D_DASH, D_FEB31,
      D_LEAP_DOT, D_LEAP_ISO, D_LEAP_SLASH, D_NOLEAP, D_SHORT,
      D_YMD_SLASH, D_MONTH13, D_YEAR2, D_CLOCK, D_LEADING }

\* What datetime.now() may return during a call.
Today == [y |-> 2026, m |-> 11, d |-> 3]
Clock == { Today, [y |-> 2026, m |-> 11, d |-> 4] }

DR_OK      == Text(<< "I", "v", ",", " ", "7" >>)
DR_SPACED  == Text(<< " ", "I", "v", " ", ",", "7", ",", "8" >>)
DR_NOCOMMA == Text(<< "I", "v" >>)
DR_PADDED  == Text(<< " ", "I", "v", " " >>)
DR_LEADING == Text(<< ",", "7" >>)

\* The driver cells _extract_driver_name is called with.
DriverCells == { NaN, DR_OK, DR_SPACED, DR_NOCOMMA, DR_PADDED, DR_LEADING }

CAR_OK      == Text(<< "a", " ", "Gazel", " ", " ", "A", "1", "7", "a" >>)
CAR_NOSPACE == Text(<< "Gazel", "A", "1" >>)
CAR_LOWER   == Text(<< "Gazel", " ", "a", "1" >>)

AM_100   == Text(<< "1", "0", "0" >>)
AM_COMMA == Text(<< "1", " ", "2", "3", "4", ",", "5", "0" >>)
AM_ABC   == Text(<< "a", "b", "c" >>)
AM_NEG   == Text(<< "-", "5", ".", "0" >>)
AM_BIG   == Text(<< "1", "2", " ", "3", "4", "5", ",", "0", "7" >>)
AM_FLOAT == Text(<< "1", "2", "3", "4", ".", "5" >>)
AM_EMPTY == Text(<< >>)
AM_SPACE == Text(<< " ", " " >>)
AM_NBSP  == Text(<< "1", "nbsp", "2", "3", "4", ",", "5", "0" >>)
AM_DOTS  == Text(<< "1", ",", "2", ".", "3" >>)
AM_SIGN  == Text(<< "-" >>)

\* Amount cells: missing; integers and decimals with a point or a comma, with
\* and without spaces between the digits; a signed one; and strings Decimal
\* rejects (empty, blank, letters, a no-break space, two points, a lone sign).
AmountCells ==
    { NaN, AM_100, AM_COMMA, AM_BIG, AM_FLOAT, AM_NEG,
      AM_EMPTY, AM_SPACE, AM_ABC, AM_NBSP, AM_DOTS, AM_SIGN }

\* An address text: its lines, and whether double quotes enclose it.
Address(quoted, lines) == Text([quoted |-> quoted, lines |-> lines])
A_KLIN   == Address(FALSE, << << "g.", "Klin" >> >>)
A_FOUR   == Address(TRUE,  << << "kirzhachsk", "rayon" >>, << "sergiev", "posad" >> >>)
A_BLANK  == Address(FALSE, << << WS >> >>)
A_EMPTY  == Address(FALSE, << << >> >>)
A_ORIGIN == Address(FALSE, << << "g.", "DMITROV" >> >>)

\* The rows of the tables, cells in the order date, driver, vehicle,
\* address, amount.
Rows ==
    { << D_DOT,   DR_OK,      CAR_OK,      A_KLIN,   AM_100   >>,
      << D_DOT,   DR_OK,      CAR_OK,      A_KLIN,   NaN      >>,
      << NaN,     DR_NOCOMMA, CAR_OK,      A_FOUR,   AM_COMMA >>,
      << D_DASH,  DR_OK,      NaN,         A_KLIN,   AM_100   >>,
      << D_ISO,   NaN,        CAR_LOWER,   A_BLANK,  AM_ABC   >>,
      << D_SLASH, DR_SPACED,  CAR_OK,      NaN,      NaN      >>,
      << D_TIME,  DR_OK,      CAR_NOSPACE, A_ORIGIN, AM_NEG   >>,
      << D_FEB31, DR_OK,      CAR_OK,      A_EMPTY,  AM_100   >> }

CleanRow   == << D_DOT, DR_OK, CAR_OK, A_KLIN, AM_100 >>
NoAmount   == << D_DOT, DR_OK, CAR_OK, A_KLIN, NaN >>

\* All sequences over S of length at most n.
SeqsUpTo(S, n) == UNION { [1..k -> S] : k \in 0..n }

\* Column layouts: the five labels as required; labels that only contain
\* them (in another case, inside a longer label, with two candidates for
\* one of them); one or two required labels absent; no header row.
ExactColumns ==
    << StrLabel(<< "Data" >>), StrLabel(<< "Voditel" >>), StrLabel(<< "Avto" >>),
       StrLabel(<< "Adres vygruzki" >>), StrLabel(<< "Summa za reysy" >>) >>
FuzzyColumns ==
    << StrLabel(<< "DATA", " reysa" >>), StrLabel(<< "FIO", " ", "voditel" >>),
       StrLabel(<< "Avto", "mobil" >>), StrLabel(<< "Adres vygruzki" >>),
       StrLabel(<< "SUMMA ZA REYSY", ", rub" >>) >>
NoAmountColumns ==
    << StrLabel(<< "Data" >>), StrLabel(<< "Voditel" >>), StrLabel(<< "Avto" >>),
       StrLabel(<< "Adres vygruzki" >>), StrLabel(<< "Primechanie" >>) >>
NoDateNoAmountColumns ==
    << StrLabel(<< "Den" >>), StrLabel(<< "voditel" >>), StrLabel(<< "Avto" >>),
       StrLabel(<< "Adres vygruzki" >>), StrLabel(<< "Itogo" >>) >>
NumberedColumns == << IntLabel(0), IntLabel(1), IntLabel(2), IntLabel(3), IntLabel(4) >>

\* More headers: two labels that contain the same required label; one label
\* that contains two required labels, alone and before a second label for
\* one of them; a number among the labels; the exact labels in another
\* order, after a longer label that contains one of them.
TwoDateColumns ==
    << StrLabel(<< "Data", " zagruzki" >>), StrLabel(<< "DATA", " reysa" >>),
       StrLabel(<< "Voditel" >>), StrLabel(<< "Avto" >>),
       StrLabel(<< "Adres vygruzki" >>), StrLabel(<< "Summa za reysy" >>) >>
SharedColumn ==
    << StrLabel(<< "Data" >>), StrLabel(<< "Voditel", " i ", "avto" >>),
       StrLabel(<< "Adres vygruzki" >>), StrLabel(<< "Summa za reysy" >>) >>
SharedAndSpare ==
    << StrLabel(<< "Data" >>), StrLabel(<< "Voditel", " i ", "avto" >>),
       StrLabel(<< "avto", " 2" >>),
       StrLabel(<< "Adres vygruzki" >>), StrLabel(<< "Summa za reysy" >>) >>
SharedAfterExact ==
    << StrLabel(<< "avto", ", ", "data" >>), StrLabel(<< "Voditel" >>),
       StrLabel(<< "Avto" >>), StrLabel(<< "Adres vygruzki" >>),
       StrLabel(<< "Summa za reysy" >>) >>
MixedColumns ==
    << IntLabel(0), StrLabel(<< "data" >>), StrLabel(<< "Voditel" >>),
       StrLabel(<< "Avto" >>), StrLabel(<< "adres vygruzki" >>),
       StrLabel(<< "Summa za reysy" >>) >>
LongerFirst ==
    << StrLabel(<< "Summa za reysy", " (plan)" >>), StrLabel(<< "Summa za reysy" >>),
       StrLabel(<< "Adres vygruzki" >>), StrLabel(<< "Avto" >>),
       StrLabel(<< "Voditel" >>), StrLabel(<< "Data" >>) >>

\* The headers _validate_structure is called with.
Headers ==
    { ExactColumns, FuzzyColumns, NoAmountColumns, NoDateNoAmountColumns,
      NumberedColumns, TwoDateColumns, SharedColumn, SharedAndSpare,
      SharedAfterExact, MixedColumns, LongerFirst }

Table(columns, index, rows) == [columns |-> columns, index |-> index, rows |-> rows]

\* A workbook pd.read_excel reads, and a delimited text file that only the
\* n-th encoding and the later ones decode.
Workbook(df) == [excel |-> Some(df), csv |-> [n \in 1..Len(ENCODINGS) |-> None]]
TextFile(df, n) ==
    [excel |-> None, csv |-> [k \in 1..Len(ENCODINGS) |-> IF k < n THEN None ELSE Some(df)]]
Unreadable == [excel |-> None, csv |-> [n \in 1..Len(ENCODINGS) |-> None]]

\* The files _load_data is called with: a workbook; a text file the n-th
\* encoding is the first to decode; a text file that later encodings decode
\* into another table (other letters in the header); a file that is both;
\* a file no reader reads.
MisreadFile(n) ==
    [excel |-> None,
     csv |-> [k \in 1..Len(ENCODINGS) |->
                IF k < n THEN None
                ELSE IF k = n THEN Some(Table(ExactColumns, "range", << CleanRow >>))
                ELSE Some(Table(NoDateNoAmountColumns, "range", << CleanRow >>))]]
LoadFiles ==
    { Workbook(Table(ExactColumns, "range", << CleanRow >>)),
      [excel |-> Some(Table(ExactColumns, "range", << CleanRow >>)),
       csv |-> [k \in 1..Len(ENCODINGS) |->
                  Some(Table(NumberedColumns, "range", << CleanRow >>))]],
      Unreadable }
    \cup { TextFile(Table(ExactColumns, "range", << NoAmount >>), n) : n \in 1..Len(ENCODINGS) }
    \cup { MisreadFile(n) : n \in 1..(Len(ENCODINGS) - 1) }

\* Tables whose rows are labelled by something else than their position
\* (delimited text with one more field per row than the header has).
LabelledTables ==
    { Table(ExactColumns, "labels", rows) : rows \in SeqsUpTo({CleanRow, NoAmount}, MaxRows) }

BadTables ==
    { Table(columns, "range", << CleanRow >>) :
        columns \in {NoAmountColumns, NoDateNoAmountColumns, NumberedColumns} }

Files ==
    { Workbook(Table(ExactColumns, "range", rows)) : rows \in SeqsUpTo(Rows, MaxRows) }
    \cup { Workbook(Table(FuzzyColumns, "range", << NoAmount, CleanRow >>)) }
    \cup { Workbook(df) : df \in BadTables \cup LabelledTables }
    \cup { TextFile(Table(ExactColumns, "range", << CleanRow, NoAmount >>), n) :
               n \in 1..Len(ENCODINGS) }
    \cup { Unreadable }

-----------------------------------------------------------------------------
(* The state machine *)

\* The list objects still referenced: by an instance, by the latest result,
\* by a result the caller holds.
Live(ps, res, ks) ==
    { ps[p].errors : p \in 1..Len(ps) } \cup { ps[p].warnings : p \in 1..Len(ps) }
    \cup { res[n].errors : n \in 1..Len(res) } \cup { res[n].warnings : n \in 1..Len(res) }
    \cup { ks[n].result.errors : n \in 1..Len(ks) }
    \cup { ks[n].result.warnings : n \in 1..Len(ks) }

\* The heap without the lists nothing refers to any more.
Collect(h, ps, res, ks) == [id \in Live(ps, res, ks) \cap DOMAIN h |-> h[id]]

\* DataProcessor(): __init__ binds errors and warnings to two new lists.
NewProcessor(h) ==
    Then(NewList(h), LAMBDA e :
    Then(NewList(e.h), LAMBDA w :
    [h |-> w.h, self |-> [errors |-> e.ref, warnings |-> w.ref]]))

Init ==
    /\ CITY_CORRECTIONS = CityCorrections
    /\ heap = NewProcessor(<< >>).h
    /\ procs = << NewProcessor(<< >>).self >>
    /\ file = None
    /\ result = None
    /\ raised = FALSE
    /\ calls = 0
    /\ kept = << >>
    /\ addr = None
    /\ locations = << >>
    /\ parsed = << >>
    /\ route = None
    /\ seen = { }
    /\ last = None
    /\ current_file = None
    /\ current_services = << >>
    /\ invoice_data = None
    /\ book = None
    /\ edits = 0

\* processor = DataProcessor()
Construct ==
    /\ Len(procs) < MaxProcs
    /\ \E new \in { NewProcessor(heap) } :
       /\ heap' = new.h
       /\ procs' = Append(procs, new.self)
    /\ UNCHANGED << CITY_CORRECTIONS, file, result, raised, calls, kept,
                    addr, locations, parsed, route, seen, last, window >>

\* result = processor.process_file(f)
ProcessFile(p, f, now) ==
    /\ calls < MaxCalls
    /\ \E out \in { ProcessFileCall(heap, procs[p], f, CITY_CORRECTIONS, now, calls + 1) } :
       /\ procs' = [procs EXCEPT ![p] = out.self]
       /\ raised' = out.exc
       /\ result' = IF out.exc THEN None ELSE Some(out.result)
       /\ heap' = Collect(out.h, procs', result', kept)
    /\ file' = Some(f)
    /\ calls' = calls + 1
    /\ UNCHANGED << CITY_CORRECTIONS, kept, addr, locations, parsed, route, seen, last, window >>

\* The caller holds on to the result it got, as it is now.
Keep ==
    /\ result # None
    /\ Len(kept) < MaxKept
    /\ \A n \in 1..Len(kept) : kept[n].result # result[1]
    /\ kept' = Append(kept, [ result   |-> result[1],
                              errors   |-> heap[result[1].errors],
                              warnings |-> heap[result[1].warnings] ])
    /\ UNCHANGED << CITY_CORRECTIONS, heap, procs, file, result, raised, calls,
                    addr, locations, parsed, route, seen, last, window >>

\* The labels of the rows of a table under the default RangeIndex.
RowLabels == { NumIndex(k) : k \in 0..(MaxRows - 1) }

\* route = processor._extract_route(cell, index), called directly.
ExtractRouteCall(p, cell, index) ==
    /\ calls < MaxCalls
    /\ \E out \in { ExtractRoute(cell, index, heap[procs[p].warnings],
                                 CITY_CORRECTIONS, 0) } :
       /\ heap' = [heap EXCEPT ![procs[p].warnings] = out.w]
       /\ raised' = out.exc
       /\ route' = IF out.exc THEN None
                   ELSE Some([ self |-> p, row_index |-> index, val |-> out.val,
                               before |-> heap[procs[p].warnings], after |-> out.w ])
       /\ seen' = IF out.exc THEN seen
                  ELSE seen \cup { [method |-> "_extract_route", self |-> p,
                                    arg |-> cell, val |-> out.val] }
    /\ locations' = IF IsNa(cell) \/ IsEmptyText(cell.v) THEN locations
                    ELSE ParseAddresses(cell.v, CITY_CORRECTIONS).locations
    /\ addr' = Some(cell)
    /\ calls' = calls + 1
    /\ UNCHANGED << CITY_CORRECTIONS, procs, file, result, kept, parsed, last, window >>

\* cities = processor._parse_addresses(text), called directly.
ParseAddressesCall(p, text) ==
    /\ calls < MaxCalls
    /\ \E out \in { ParseAddresses(text, CITY_CORRECTIONS) } :
       /\ parsed' = Some(out.out)
       /\ locations' = out.locations
       /\ seen' = seen \cup { [method |-> "_parse_addresses", self |-> p,
                               arg |-> Text(text), val |-> out.out] }
    /\ addr' = Some(Text(text))
    /\ calls' = calls + 1
    /\ UNCHANGED << CITY_CORRECTIONS, heap, procs, file, result, raised, kept, route, last, window >>

\* processor = DataProcessor(); result = processor.process_file(f): one call
\* on a new instance, for any of the input files.
Next == \E f \in Files, now \in Clock : calls = 0 /\ ProcessFile(1, f, now)

Spec == Init /\ [][Next]_vars

-----------------------------------------------------------------------------
(* The resolver on one address cell *)

\* Lines of address cells: empty, blank, one city per extraction method,
\* the same city in two spellings, the origin, lines nothing matches, and a
\* town followed by a village.
AddressLines ==
    { << >>, << WS >>,
      << "g.", "Klin" >>, << "g.", "kirzhach" >>, << "g.", "Kirzhach" >>,
      << "g.", "DMITROV" >>, << "g.", "Sergiev", "Posad" >>,
      << "kirzhachsk", "rayon" >>, << "sergiev", "posad" >>, << "serg.", "posad" >>,
      << "Odintsovo" >>, << "s.", "Alenino" >>, << "ul.", "Klin" >>,
      << "g.", "Klin", "s.", "Alenino" >> }

\* The address cells: a missing one, every text of one to MaxLines lines,
\* and every text of one line enclosed in double quotes (the quotes matter
\* only for what is left when they are stripped).
AddressCells ==
    { NaN }
    \cup { Address(FALSE, lines) : lines \in SeqsUpTo(AddressLines, MaxLines) \ { << >> } }
    \cup { Address(TRUE, << line >>) : line \in AddressLines }

InitResolver ==
    /\ CITY_CORRECTIONS = CityCorrections
    /\ heap = NewProcessor(<< >>).h
    /\ procs = << NewProcessor(<< >>).self >>
    /\ file = None
    /\ result = None
    /\ raised = FALSE
    /\ calls = 0
    /\ kept = << >>
    /\ addr \in { Some(cell) : cell \in AddressCells }
    /\ locations = << >>
    /\ parsed = None
    /\ route = None
    /\ seen = { }
    /\ last = None
    /\ current_file = None
    /\ current_services = << >>
    /\ invoice_data = None
    /\ book = None
    /\ edits = 0

\* Each of the two methods is applied once to the cell drawn.
NextResolver ==
    \/ \E index \in RowLabels : route = None /\ ExtractRouteCall(1, addr[1], index)
    \/ parsed = None /\ ~IsNa(addr[1]) /\ ParseAddressesCall(1, addr[1].v)

SpecResolver == InitResolver /\ [][NextResolver]_vars

-----------------------------------------------------------------------------
(* Repeated calls on one or several instances *)

\* Files with a warning, with an error of each kind, and with neither.
ReentrantFiles ==
    { Workbook(Table(ExactColumns, "range", << NoAmount >>)),
      Workbook(Table(ExactColumns, "range", << CleanRow >>)),
      Workbook(Table(NoAmountColumns, "range", << CleanRow >>)) }

\* No row of these files lacks its date: the clock is not read.
NextReentrant ==
    \/ Construct
    \/ \E p \in 1..Len(procs), f \in ReentrantFiles : ProcessFile(p, f, Today)
    \/ Keep

SpecReentrant == Init /\ [][NextReentrant]_vars

\* Cells resolved again and again.
IdemCells == { A_KLIN, A_FOUR }

IdemFile == Workbook(Table(ExactColumns, "range", << NoAmount >>))

NextIdem ==
    \/ Construct
    \/ \E p \in 1..Len(procs), cell \in IdemCells :
           ExtractRouteCall(p, cell, NumIndex(0))
    \/ \E p \in 1..Len(procs), cell \in IdemCells :
           ParseAddressesCall(p, cell.v)
    \/ \E p \in 1..Len(procs) : ProcessFile(p, IdemFile, Today)

SpecIdem == Init /\ [][NextIdem]_vars

-----------------------------------------------------------------------------
(* The field parsers called directly *)

\* amount = processor._parse_amount(cell, index)
ParseAmountCall(p, cell, index) ==
    /\ calls < MaxFieldCalls
    /\ \E out \in { ParseAmount(cell, index, heap[procs[p].warnings], 0) } :
       /\ heap' = [heap EXCEPT ![procs[p].warnings] = out.w]
       /\ raised' = out.exc
       /\ last' = Some([ method |-> "_parse_amount", self |-> p, arg |-> cell,
                         row_index |-> index, exc |-> out.exc, val |-> out.val,
                         before |-> heap[procs[p].warnings], after |-> out.w ])
    /\ calls' = calls + 1
    /\ UNCHANGED << CITY_CORRECTIONS, procs, file, result, kept,
                    addr, locations, parsed, route, seen, window >>

\* date = processor._parse_date(cell, index)
ParseDateCall(p, cell, index, now) ==
    /\ calls < MaxFieldCalls
    /\ \E out \in { ParseDate(cell, index, heap[procs[p].warnings], now, 0) } :
       /\ heap' = [heap EXCEPT ![procs[p].warnings] = out.w]
       /\ raised' = out.exc
       /\ last' = Some([ method |-> "_parse_date", self |-> p, arg |-> cell,
                         row_index |-> index, exc |-> out.exc, val |-> out.val,
                         before |-> heap[procs[p].warnings], after |-> out.w ])
    /\ calls' = calls + 1
    /\ UNCHANGED << CITY_CORRECTIONS, procs, file, result, kept,
                    addr, locations, parsed, route, seen, window >>

\* name = processor._extract_driver_name(cell, index)
ExtractDriverNameCall(p, cell, index) ==
    /\ calls < MaxFieldCalls
    /\ \E out \in { ExtractDriverName(cell, index, heap[procs[p].warnings], 0) } :
       /\ heap' = [heap EXCEPT ![procs[p].warnings] = out.w]
       /\ raised' = out.exc
       /\ last' = Some([ method |-> "_extract_driver_name", self |-> p, arg |-> cell,
                         row_index |-> index, exc |-> out.exc, val |-> out.val,
                         before |-> heap[procs[p].warnings], after |-> out.w ])
    /\ calls' = calls + 1
    /\ UNCHANGED << CITY_CORRECTIONS, procs, file, result, kept,
                    addr, locations, parsed, route, seen, window >>

\* ok = processor._validate_structure(df), df with the given header
ValidateStructureCall(p, columns) ==
    /\ calls < MaxFieldCalls
    /\ \E out \in { ValidateStructure(Table(columns, "range", << >>),
                                       heap[procs[p].errors], 0) } :
       /\ heap' = [heap EXCEPT ![procs[p].errors] = out.errs]
       /\ last' = Some([ method |-> "_validate_structure", self |-> p, arg |-> columns,
                         val |-> out.ok, columns |-> out.df.columns,
                         before |-> heap[procs[p].errors], after |-> out.errs ])
    /\ calls' = calls + 1
    /\ UNCHANGED << CITY_CORRECTIONS, procs, file, result, raised, kept,
                    addr, locations, parsed, route, seen, window >>

\* df = processor._load_data(file_path)
LoadDataCall(p, f) ==
    /\ calls < MaxFieldCalls
    /\ \E out \in { LoadData(f, heap[procs[p].errors], 0) } :
       /\ heap' = [heap EXCEPT ![procs[p].errors] = out.errs]
       /\ last' = Some([ method |-> "_load_data", self |-> p, arg |-> f,
                         val |-> out.df, tried |-> out.tried,
                         before |-> heap[procs[p].errors], after |-> out.errs ])
    /\ calls' = calls + 1
    /\ UNCHANGED << CITY_CORRECTIONS, procs, file, result, raised, kept,
                    addr, locations, parsed, route, seen, window >>

NextFields ==
    \/ \E f \in LoadFiles : LoadDataCall(1, f)
    \/ \E columns \in Headers : ValidateStructureCall(1, columns)
    \/ \E cell \in DriverCells, index \in RowLabels : ExtractDriverNameCall(1, cell, index)
    \/ \E cell \in AmountCells, index \in RowLabels : ParseAmountCall(1, cell, index)
    \/ \E cell \in DateCells, index \in RowLabels, now \in Clock :
           ParseDateCall(1, cell, index, now)

SpecFields == Init /\ [][NextFields]_vars

-----------------------------------------------------------------------------
(* The main window: load, preview, edit, generate *)

\* Amount cells of the files the window loads.
AM_100_00 == Text(<< "1", "0", "0", ".", "0", "0" >>)
AM_250_50 == Text(<< "2", "5", "0", ".", "5", "0" >>)
AM_49_50  == Text(<< "4", "9", ",", "5", "0" >>)

\* Files the window loads: two rows, the second with a negative amount; one
\* row without an address; a file no reader can read.
WindowFiles ==
    { Workbook(Table(ExactColumns, "range",
                     << << D_DOT, DR_OK, CAR_OK, A_FOUR, AM_250_50 >>,
                        << D_ISO, DR_NOCOMMA, CAR_OK, A_KLIN, AM_NEG >> >>)),
      Workbook(Table(ExactColumns, "range", << << D_DOT, DR_OK, CAR_OK, NaN, AM_FLOAT >> >>)),
      Unreadable }

\* Files documents are generated from: three rows with amounts 100.00,
\* 250.50 and 49.50; one row; a file no reader can read.
DocFiles ==
    { Workbook(Table(ExactColumns, "range",
                     << << D_DOT, DR_OK, CAR_OK, A_KLIN, AM_100_00 >>,
                        << D_ISO, DR_OK, CAR_OK, A_FOUR, AM_250_50 >>,
                        << D_SLASH, DR_NOCOMMA, CAR_OK, A_KLIN, AM_49_50 >> >>)),
      Workbook(Table(ExactColumns, "range", << << D_DOT, DR_OK, CAR_OK, A_KLIN, AM_COMMA >> >>)),
      Unreadable }

\* Texts typed into the description column: without the word "маршрут"; with
\* another route after it; with nothing after it; with a lone hyphen after
\* it; with the word twice.
DescriptionEdits ==
    { Text(<< "uslugi" >>),
      Text(<< "uslugi", WS, ROUTE_MARK, WS, "Klin", WS, "-", WS, "Dmitrov" >>),
      Text(<< "uslugi", WS, ROUTE_MARK, WS >>),
      Text(<< ROUTE_MARK, "-" >>),
      Text(<< ROUTE_MARK, WS, "Dmitrov", "-", "Sergiev", WS, "Posad", ROUTE_MARK, "Klin" >>) }

QuantityEdits ==
    { IntValue(2), IntValue(-1), IntValue(0), Text(<< " ", "3" >>),
      Text(<< "2", ".", "5" >>), NoneValue }

UnitEdits == { Text(<< "reys" >>) }

PriceEdits ==
    { Text(<< "2", "5", "0", ".", "5", "0" >>), Text(<< "-", "5" >>), Text(<< "a" >>),
      IntValue(3), Text(<< "NaN" >>), Text(<< "Infinity" >>) }

\* The values an editor may hand over for a cell of column col of service.
EditValues(col, service) ==
    CASE col = 1 -> DescriptionEdits \cup { Text(Description(service)) }
      [] col = 2 -> QuantityEdits
      [] col = 3 -> UnitEdits
      [] col = 4 -> PriceEdits
      [] OTHER   -> { IntValue(7) }

\* Invoice numbers and dates entered in the window.
InvoiceNumbers == { "7", "" }
InvoiceDates   == { [y |-> 2024, m |-> 3, d |-> 31] }

\* processor = DataProcessor(); result = processor.process_file(f): the
\* services of a successful result, or None.
ProcessNew(f, cc, now) ==
    Then(NewProcessor(<< >>), LAMBDA np :
    Then(ProcessFileCall(np.h, np.self, f, cc, now, 1), LAMBDA out :
    IF ~out.exc /\ out.result.success THEN out.result.data ELSE None))

\* What a new DataProcessor extracts from each file the window loads, with
\* the class dictionary as it is defined: a new instance has no other state.
Processed == [f \in WindowFiles \cup DocFiles |-> ProcessNew(f, CityCorrections, Today)]

\* self.current_services when the handlers go on: the list at hand, else the
\* one a new DataProcessor extracts from the current file; None when that
\* fails.
ServicesAtHand ==
    IF current_services # << >> THEN Some(current_services)
    ELSE IF CITY_CORRECTIONS = CityCorrections THEN Processed[current_file[1]]
    ELSE ProcessNew(current_file[1], CITY_CORRECTIONS, Today)

\* ModernMainWindow.load_file
LoadFile(f) ==
    /\ current_file' = Some(f)
    /\ UNCHANGED << CITY_CORRECTIONS, heap, procs, file, result, raised, calls, kept,
                    addr, locations, parsed, route, seen, last,
                    current_services, invoice_data, book, edits >>

\* ModernMainWindow.preview_data; the button is enabled by load_file.
PreviewData ==
    /\ current_file # None
    /\ \E got \in { ServicesAtHand } :
          current_services' = IF got = None THEN current_services ELSE got[1]
    /\ UNCHANGED << CITY_CORRECTIONS, heap, procs, file, result, raised, calls, kept,
                    addr, locations, parsed, route, seen, last,
                    current_file, invoice_data, book, edits >>

\* ModernTableModel.setData on the model of the preview dialog, whose list
\* is self.current_services.
SetDataCall(valid, role, row, col, value) ==
    /\ edits < MaxEdits
    /\ \E out \in { SetData(current_services, valid, role, row, col, value) } :
       /\ current_services' = out.services
       /\ last' = Some([ method |-> "setData", valid |-> valid, role |-> role,
                         row |-> row, col |-> col, value |-> value, ret |-> out.ret,
                         before |-> current_services, after |-> out.services ])
    /\ edits' = edits + 1
    /\ UNCHANGED << CITY_CORRECTIONS, heap, procs, file, result, raised, calls, kept,
                    addr, locations, parsed, route, seen,
                    current_file, invoice_data, book >>

\* ModernMainWindow.generate_documents: chosen is whether the save dialog
\* returns a path.
GenerateDocumentsClick(number, date, chosen, saved, words) ==
    /\ current_file # None
    /\ \E got \in { ServicesAtHand } :
          IF got = None
          THEN UNCHANGED << current_services, invoice_data, book >>
          ELSE /\ current_services' = got[1]
               /\ IF ~chosen
                  THEN UNCHANGED << invoice_data, book >>
                  ELSE \E inv \in { InvoiceData(number, date, CUSTOMER_FULL, None, got[1]) } :
                       \E out \in { GenerateDocuments(inv, saved, words) } :
                          /\ invoice_data' = Some(inv)
                          /\ book' = IF out.ret THEN out.wb ELSE book
    /\ UNCHANGED << CITY_CORRECTIONS, heap, procs, file, result, raised, calls, kept,
                    addr, locations, parsed, route, seen, last, current_file, edits >>

\* A workbook with the two sheets, empty, and one without the act's sheet.
BlankTemplate == (SHEET_INVOICE :> NewSheet) @@ (SHEET_ACT :> NewSheet)
NoActTemplate == (SHEET_INVOICE :> NewSheet)

\* generator.update_template(template, invoice_data, output), for an
\* InvoiceData built as generate_documents builds it.
UpdateTemplateCall(number, date, customer, template, saved, words) ==
    /\ \E inv \in { InvoiceData(number, date, customer, None, current_services) } :
       \E out \in { UpdateTemplate(template, inv, saved, words) } :
          /\ invoice_data' = Some(inv)
          /\ book' = IF out.ret THEN out.wb ELSE book
    /\ UNCHANGED << CITY_CORRECTIONS, heap, procs, file, result, raised, calls, kept,
                    addr, locations, parsed, route, seen, last,
                    current_file, current_services, edits >>

\* Load, preview and edit.  An index that is not valid, a role other than
\* EditRole and a row past the end of the list are each tried with one value.
NextWindow ==
    \/ \E f \in WindowFiles : LoadFile(f)
    \/ PreviewData
    \/ /\ current_services # << >>
       /\ \E row \in 0..(Len(current_services) - 1), col \in 0..4 :
             \E value \in EditValues(col, current_services[row + 1]) :
                SetDataCall(TRUE, "EditRole", row, col, value)
    \/ /\ current_services # << >>
       /\ \E c \in { << FALSE, "EditRole", 0 >>, << TRUE, "DisplayRole", 0 >>,
                      << TRUE, "EditRole", Len(current_services) >> } :
             SetDataCall(c[1], c[2], c[3], 2, IntValue(2))

SpecWindow == Init /\ [][NextWindow]_vars

\* The edits made before documents are generated: a quantity and a route,
\* in the first or the last row.
DocEdits ==
    { << 2, IntValue(2) >>,
      << 1, Text(<< ROUTE_MARK, WS, "Klin", WS, "-", WS, "Dmitrov" >>) >> }

\* Load, preview, edit and generate.  The save dialog is cancelled, or the
\* workbook cannot be saved, or it is saved, with and without num2words.
NextDocs ==
    \/ \E f \in DocFiles : LoadFile(f)
    \/ PreviewData
    \/ /\ current_services # << >>
       /\ \E row \in { 0, Len(current_services) - 1 }, e \in DocEdits :
             SetDataCall(TRUE, "EditRole", row, e[1], e[2])
    \/ \E number \in InvoiceNumbers, date \in InvoiceDates,
          c \in { << FALSE, FALSE, TRUE >>, << TRUE, FALSE, TRUE >>,
                  << TRUE, TRUE, TRUE >>, << TRUE, TRUE, FALSE >> } :
          GenerateDocumentsClick(number, date, c[1], c[2], c[3])
    \/ \E date \in InvoiceDates,
          c \in { << CUSTOMER_FULL, BlankTemplate, TRUE >>, << "", BlankTemplate, TRUE >>,
                  << CUSTOMER_FULL, NoActTemplate, TRUE >>, << CUSTOMER_FULL, BlankTemplate, FALSE >> } :
          UpdateTemplateCall("7", date, c[1], c[2], c[3], TRUE)

SpecDocs == Init /\ [][NextDocs]_vars

-----------------------------------------------------------------------------
(* Vocabulary of the properties *)

\* A reader succeeds on f.
Readable(f) == f.excel # None \/ \E n \in 1..Len(f.csv) : f.csv[n] # None

\* The table read from a readable f: the workbook, else the first decoding.
TableOf(f) ==
    IF f.excel # None THEN f.excel[1]
    ELSE f.csv[CHOOSE n \in 1..Len(f.csv) :
                   f.csv[n] # None /\ \A k \in 1..(n - 1) : f.csv[k] = None][1]

\* The required columns no label contains, in the order required.
StillMissing(columns) ==
    SelectSeq(REQUIRED_COLUMNS,
              LAMBDA col : ~\E k \in 1..Len(columns) : FuzzyMatch(col, columns[k]))

\* The cell of row k under the column that stands for col: the one labelled
\* col, else the first whose label contains it.
Field(df, k, col) ==
    LET exact(n) == df.columns[n] = StrLabel(<< col >>)
        fuzzy(n) == FuzzyMatch(col, df.columns[n])
        n0 == IF \E n \in 1..Len(df.columns) : exact(n)
              THEN Leftmost(exact, Len(df.columns))
              ELSE Leftmost(fuzzy, Len(df.columns))
    IN  df.rows[k][n0]

\* The resolver's answer for an address cell that reaches it.
Resolved(cell) == ParseAddresses(cell.v, CityCorrections).out

DateFails(c) ==
    \/ IsNa(c)
    \/ c.t = "str" /\ \A n \in 1..Len(DateFormats) : Strptime(c.v, DateFormats[n]) = None
DriverFails(c) == IsNa(c) \/ ~HasComma(c.v)
CarFails(c)    == IsNa(c) \/ SearchPlate(c.v) = None
RouteFails(c)  == IsNa(c) \/ Resolved(c) = << >>
AmountFails(c) == IsNa(c) \/ ParseDecimal(CleanAmount(c.v)) = None

\* The fields of row k that are missing or cannot be parsed.
Fails(df, k) ==
    { col \in { COL_DATE, COL_DRIVER, COL_CAR, COL_ADDRESS, COL_AMOUNT } :
        CASE col = COL_DATE    -> DateFails(Field(df, k, col))
          [] col = COL_DRIVER  -> DriverFails(Field(df, k, col))
          [] col = COL_CAR     -> CarFails(Field(df, k, col))
          [] col = COL_ADDRESS -> RouteFails(Field(df, k, col))
          [] OTHER             -> AmountFails(Field(df, k, col)) }

\* The field a warning is about.
FieldOf(kind) ==
    CASE kind \in { "pustaya data", "ne udalos raspoznat datu" } -> COL_DATE
      [] kind \in { "voditel ne ukazan", "ne udalos izvlech imya voditelya" } -> COL_DRIVER
      [] kind \in { "avtomobil ne ukazan", "ne udalos izvlech nomer avtomobilya" } -> COL_CAR
      [] kind \in { "adres ne ukazan", "ne udalos izvlech marshrut" } -> COL_ADDRESS
      [] kind \in { "summa ne ukazana", "ne udalos preobrazovat summu" } -> COL_AMOUNT
      [] OTHER -> "row"

\* A row raises: its label is not a number and a warning is to be written.
RowRaises(df) == df.index # "range" /\ \E k \in 1..Len(df.rows) : Fails(df, k) # { }

\* f passes structural validation.
Valid(f) == Readable(f) /\ StillMissing(TableOf(f).columns) = << >>

\* The fatal outcomes: no reader succeeds, a required column is missing, an
\* exception reaches the except clause of process_file.
Fatal(f) == ~Valid(f) \/ RowRaises(TableOf(f))

\* The two lists of the latest result.
ResultErrors   == heap[result[1].errors]
ResultWarnings == heap[result[1].warnings]

-----------------------------------------------------------------------------
(* C1 *)

\* C1: every TransportService returned by process_file has the origin city
\* as route[0] and at most 4 route entries; when the resolver returns a
\* non-empty list for the row's address, the route is the origin followed by
\* the first three resolver results in resolver order.
C1_RouteStartsAtOrigin ==
    (file # None /\ result # None /\ result[1].data # None) =>
        LET data == result[1].data[1]
            df   == TableOf(file[1])
        IN  \A k \in 1..Len(data) :
                LET rt   == data[k].route
                    cell == Field(df, k, COL_ADDRESS)
                IN  /\ Len(rt) \in 1..4
                    /\ rt[1] = ORIGIN
                    /\ (~IsNa(cell) /\ ~IsEmptyText(cell.v) /\ Resolved(cell) # << >>) =>
                           LET out == Resolved(cell) IN
                           rt = << ORIGIN >> \o
                                SubSeq(out, 1, IF Len(out) < 3 THEN Len(out) ELSE 3)

\* A service whose address resolves to more than three cities, of which its
\* route holds three.
C1_Witness ==
    /\ file # None /\ result # None /\ result[1].data # None
    /\ \E k \in 1..Len(result[1].data[1]) :
           LET cell == Field(TableOf(file[1]), k, COL_ADDRESS) IN
           /\ ~IsNa(cell) /\ Len(Resolved(cell)) > 3
           /\ Len(result[1].data[1][k].route) = 4

-----------------------------------------------------------------------------
(* C2 *)

\* Every line of the text is whitespace or empty.
Blank(text) ==
    \A n \in 1..Len(text.lines) :
        \A j \in 1..Len(text.lines[n]) : text.lines[n][j] = WS

\* The address cell is missing, empty, blank, or yields no resolver result.
NoResult(cell) == IsNa(cell) \/ Blank(cell.v) \/ Resolved(cell) = << >>

\* C2: for an address cell that is missing, empty, blank or yields no
\* resolver result, _extract_route returns exactly [origin, "Неизвестный
\* пункт"] and appends exactly one warning, for that row; when a city is
\* resolved it appends no warning.
C2_FallbackRoute ==
    route # None =>
        LET r   == route[1]
            new == SubSeq(r.after, Len(r.before) + 1, Len(r.after))
        IN  /\ SubSeq(r.after, 1, Len(r.before)) = r.before
            /\ heap[procs[r.self].warnings] = r.after
            /\ IF NoResult(addr[1])
               THEN /\ r.val = << ORIGIN, UNKNOWN >>
                    /\ Len(new) = 1
                    /\ new[1].row = r.row_index.v + 1
                    /\ FieldOf(new[1].kind) = COL_ADDRESS
               ELSE new = << >>

\* _extract_route has returned the fallback for a blank cell that is not
\* empty, for a row other than the first.
C2_Witness ==
    /\ route # None /\ ~IsNa(addr[1])
    /\ Blank(addr[1].v) /\ ~IsEmptyText(addr[1].v)
    /\ route[1].row_index.v > 0
    /\ route[1].val = << ORIGIN, UNKNOWN >>
    /\ Len(route[1].after) = 1

-----------------------------------------------------------------------------
(* C3 *)

\* The service of row k, up to its date.
ServiceOfRow(df, k) ==
    [ driver_name |-> IF IsNa(Field(df, k, COL_DRIVER)) THEN NOT_SPECIFIED
                      ELSE IF HasComma(Field(df, k, COL_DRIVER).v)
                           THEN Strip(BeforeComma(Field(df, k, COL_DRIVER).v))
                           ELSE Field(df, k, COL_DRIVER).v,
      car_number  |-> IF CarFails(Field(df, k, COL_CAR)) THEN NOT_SPECIFIED
                      ELSE SearchPlate(Field(df, k, COL_CAR).v)[1],
      route       |-> IF RouteFails(Field(df, k, COL_ADDRESS)) THEN << ORIGIN, UNKNOWN >>
                      ELSE LET out == Resolved(Field(df, k, COL_ADDRESS)) IN
                           << ORIGIN >> \o SubSeq(out, 1, IF Len(out) < 3 THEN Len(out) ELSE 3),
      amount      |-> IF AmountFails(Field(df, k, COL_AMOUNT)) THEN ZERO_00
                      ELSE ParseDecimal(CleanAmount(Field(df, k, COL_AMOUNT).v))[1] ]

-----------------------------------------------------------------------------
(* C4 *)

\* C4: when process_file ends in a fatal outcome (no reader succeeds, a
\* required column is missing after fuzzy matching, an unexpected exception)
\* the result has success = False, data None and a non-empty errors list;
\* and success = True implies data is a list and errors is empty.
C4_FatalOutcome ==
    (file # None /\ result # None) =>
        /\ Fatal(file[1]) =>
               /\ ~result[1].success
               /\ result[1].data = None
               /\ ResultErrors # << >>
        /\ result[1].success =>
               /\ result[1].data # None
               /\ ResultErrors = << >>
               /\ ~Fatal(file[1])

\* The file has the required columns, a row raised, and the result is the
\* failure the except clause builds.
C4_Witness ==
    /\ file # None /\ result # None
    /\ Valid(file[1]) /\ RowRaises(TableOf(file[1]))
    /\ ~result[1].success
    /\ result[1].data = None
    /\ Len(ResultErrors) = 1

-----------------------------------------------------------------------------
(* C5 *)

\* C5: if a required column is still missing after fuzzy matching,
\* process_file returns success = False with a single error that names every
\* missing column, and no row is processed: there are no warnings.
C5_MissingColumns ==
    (file # None /\ result # None /\ Readable(file[1])
        /\ StillMissing(TableOf(file[1]).columns) # << >>) =>
        /\ ~result[1].success
        /\ result[1].data = None
        /\ Len(ResultErrors) = 1
        /\ ResultErrors[1].kind = "otsutstvuyut kolonki"
        /\ ResultErrors[1].cols = StillMissing(TableOf(file[1]).columns)
        /\ ResultWarnings = << >>
        /\ \A p \in 1..Len(procs) : heap[procs[p].warnings] = << >>

\* Two required columns are missing and the one error names both.
C5_Witness ==
    /\ file # None /\ result # None /\ Readable(file[1])
    /\ StillMissing(TableOf(file[1]).columns) = << COL_DATE, COL_AMOUNT >>
    /\ Len(ResultErrors) = 1
    /\ ResultErrors[1].cols = << COL_DATE, COL_AMOUNT >>

-----------------------------------------------------------------------------
(* C6 *)

\* Something went wrong with f: a fatal outcome, or a field of a row that is
\* missing or fails to parse.
Failure(f) ==
    \/ Fatal(f)
    \/ \E k \in 1..Len(TableOf(f).rows) : Fails(TableOf(f), k) # { }

\* C6: process_file never raises to its caller; for every input it returns
\* a ProcessingResult, and every failure is reported through success = False
\* with the errors list, or through the warnings list.
C6_NeverRaises ==
    /\ ~raised
    /\ file # None =>
           /\ result # None
           /\ Failure(file[1]) =>
                  \/ ~result[1].success /\ ResultErrors # << >>
                  \/ ResultWarnings # << >>

\* The second row raised, the handler of _process_data raised again, and
\* process_file returned the failure with the exception as its error.
C6_Witness ==
    /\ file # None /\ result # None /\ ~raised
    /\ Valid(file[1]) /\ TableOf(file[1]).index # "range"
    /\ Len(TableOf(file[1]).rows) = 2
    /\ Fails(TableOf(file[1]), 1) = { }
    /\ Fails(TableOf(file[1]), 2) # { }
    /\ ResultErrors[1].kind = "TypeError"

-----------------------------------------------------------------------------
(* C7 *)

\* C7: over any sequence of process_file calls on one instance, the errors
\* and warnings of each result hold only entries made during that call, and
\* the lists of an earlier result are not changed by a later call.
C7_NoLeakBetweenCalls ==
    /\ result # None =>
           /\ \A n \in 1..Len(ResultErrors)   : ResultErrors[n].call = calls
           /\ \A n \in 1..Len(ResultWarnings) : ResultWarnings[n].call = calls
    /\ \A n \in 1..Len(kept) :
           /\ heap[kept[n].result.errors]   = kept[n].errors
           /\ heap[kept[n].result.warnings] = kept[n].warnings

\* On a single instance: the result of the first call, kept, with its
\* warning, and two calls later a result with a warning of its own.
C7_Witness ==
    /\ Len(procs) = 1 /\ calls = 3 /\ result # None
    /\ Len(kept) = 1
    /\ Len(kept[1].warnings) = 1 /\ kept[1].warnings[1].call = 1
    /\ Len(ResultWarnings) = 1
    /\ result[1].warnings # kept[1].result.warnings

-----------------------------------------------------------------------------
(* C8 *)

\* The lines of a text that the loop of _parse_addresses does not skip.
LinesOf(text) == { Strip(text.lines[n]) : n \in 1..Len(text.lines) } \ { << >> }

\* The canonical cities of the abbreviations that match in the text.
AbbrCities(text) ==
    { CityCorrections[n].city : n \in { m \in 1..Len(CityCorrections) :
          \E line \in LinesOf(text) : AbbrMatches(CityCorrections[m].abbr, line) } }

\* What the patterns find in the text, the origin apart: name and priority.
PatternFinds(text) ==
    { [city |-> PatternMatch(f[1], f[2]), priority |-> 3 - f[1]] :
        f \in { g \in (0..(NumPatterns - 1)) \X LinesOf(text) :
                  /\ PatternMatch(g[1], g[2]) # NoMatch
                  /\ Lower(PatternMatch(g[1], g[2])) # Lower(ORIGIN) } }

\* Every pattern-derived match for a city other than c has priority below 3.
OthersBelowTop(text, c) ==
    \A f \in PatternFinds(text) : f.city # c => f.priority < 3

\* c is first in the resolver output and the first destination of the route.
RanksFirst(c) ==
    /\ parsed # None => parsed[1] # << >> /\ parsed[1][1] = c
    /\ route # None => Len(route[1].val) >= 2 /\ route[1].val[2] = c

\* C8 as stated: whenever an abbreviation of the dictionary matches
\* (canonical city c) and every pattern-derived match for a different city
\* has priority below 3, c is first in the resolver output and the first
\* destination of the route.
C8_AbbreviationRanksFirst ==
    (addr # None /\ ~IsNa(addr[1])) =>
        \A c \in AbbrCities(addr[1].v) :
            OthersBelowTop(addr[1].v, c) => RanksFirst(c)

\* C8, amended: the same, for a text in which the matching abbreviations
\* all stand for the one canonical city c.
C8_SoleAbbreviationRanksFirst ==
    (addr # None /\ ~IsNa(addr[1])) =>
        \A c \in AbbrCities(addr[1].v) :
            (AbbrCities(addr[1].v) = { c } /\ OthersBelowTop(addr[1].v, c)) =>
                RanksFirst(c)

\* Both methods have run on a text with an abbreviation of one city and a
\* pattern match of lower priority for another, found on an earlier line.
C8_Witness ==
    /\ addr # None /\ ~IsNa(addr[1]) /\ parsed # None /\ route # None
    /\ AbbrCities(addr[1].v) = { "Sergiev Posad" }
    /\ OthersBelowTop(addr[1].v, "Sergiev Posad")
    /\ \E f \in PatternFinds(addr[1].v) : f.city = "Odintsovo" /\ f.priority = 2
    /\ Len(parsed[1]) >= 2
    /\ parsed[1][1] = "Sergiev Posad"
    /\ locations[1].key = "Odintsovo"

-----------------------------------------------------------------------------
(* C9 *)

\* Two names of the output stand for the same city: they differ at most in
\* the case of their letters.
SameCity(a, b) == Lower(a) = Lower(b)

\* C9 as stated: no city occurs more than once in the resolver output.
C9_NoCityTwice ==
    parsed # None =>
        \A i \in 1..Len(parsed[1]) : \A j \in 1..Len(parsed[1]) :
            i # j => ~SameCity(parsed[1][i], parsed[1][j])

-----------------------------------------------------------------------------
(* C10 *)

\* C10: address resolution has no hidden state: two calls of _extract_route,
\* or of _parse_addresses, with the same address text return the same value,
\* on the same or on different instances and whatever is called in between;
\* and the correction dictionary is never modified.
C10_SameTextSameRoute ==
    /\ CITY_CORRECTIONS = CityCorrections
    /\ \A a \in seen : \A b \in seen :
           (a.method = b.method /\ a.arg = b.arg) => a.val = b.val

\* After MaxCalls calls: a text resolved by _extract_route on two instances,
\* to the same route with a city in it, and another text resolved as well.
C10_Witness ==
    /\ calls = MaxCalls
    /\ route # None
    /\ \E a \in seen : \E b \in seen : \E c \in seen :
           /\ a.method = "_extract_route" /\ b.method = "_extract_route"
           /\ a.arg = b.arg /\ a.self # b.self
           /\ a.arg = addr[1] /\ a.self = route[1].self
           /\ a.val = b.val /\ Len(a.val) = 4
           /\ c.arg # a.arg /\ c.val # << >>

-----------------------------------------------------------------------------
(* C11 *)

\* The warnings the latest direct call of a field parser appended.
Appended == SubSeq(last[1].after, Len(last[1].before) + 1, Len(last[1].after))

\* The string is a number: after the spaces are dropped, an optional sign,
\* then digits with at most one comma or point among them.
IsNumber(chars) ==
    LET body     == SelectSeq(chars, LAMBDA c : c # " ")
        unsigned == IF body # << >> /\ body[1] \in { "-", "+" } THEN Tail(body) ELSE body
    IN  /\ \A n \in 1..Len(unsigned) : unsigned[n] \in Digits \cup { ",", "." }
        /\ Cardinality({ n \in 1..Len(unsigned) : unsigned[n] \in { ",", "." } }) <= 1
        /\ \E n \in 1..Len(unsigned) : unsigned[n] \in Digits

\* C11: for an amount cell that is missing, blank or cannot be parsed,
\* _parse_amount returns exactly Decimal 0.00, appends exactly one warning
\* (for that row, about the amount) and does not raise; for a cell that can
\* be parsed it appends no warning.
C11_AmountDefault ==
    (last # None /\ last[1].method = "_parse_amount") =>
        LET r == last[1] IN
        /\ ~r.exc /\ ~raised
        /\ SubSeq(r.after, 1, Len(r.before)) = r.before
        /\ heap[procs[r.self].warnings] = r.after
        /\ IF IsNa(r.arg) \/ ~IsNumber(r.arg.v)
           THEN /\ r.val = Dec(0, 0, -2)
                /\ Len(Appended) = 1
                /\ Appended[1].row = r.row_index.v + 1
                /\ FieldOf(Appended[1].kind) = COL_AMOUNT
           ELSE Appended = << >>

\* _parse_amount has returned 0.00 for letters, in a row other than the
\* first, with a warning added to the ones already there.
C11_Witness ==
    /\ last # None /\ last[1].method = "_parse_amount"
    /\ last[1].arg = AM_ABC
    /\ last[1].row_index.v > 0
    /\ last[1].before # << >>
    /\ last[1].val = Dec(0, 0, -2)
    /\ Len(last[1].after) = Len(last[1].before) + 1

-----------------------------------------------------------------------------
(* C12 *)

\* The cell is written with a comma before its decimals and spaces between
\* its digits: digits, spaces and one comma, a digit on either side of it.
CommaAndSpaces(chars) ==
    /\ \A n \in 1..Len(chars) : chars[n] \in Digits \cup { ",", " " }
    /\ Cardinality({ n \in 1..Len(chars) : chars[n] = "," }) = 1
    /\ \E n \in 1..Len(chars) : chars[n] = " "
    /\ \E j, k, n \in 1..Len(chars) :
           j < k /\ k < n /\ chars[j] \in Digits /\ chars[k] = "," /\ chars[n] \in Digits

\* The number of digits after the comma.
Decimals(chars) ==
    Cardinality({ n \in 1..Len(chars) :
                    chars[n] \in Digits /\ \E k \in 1..(n - 1) : chars[k] = "," })

\* C12: for an amount cell written with a comma as decimal separator and
\* spaces as thousands separators, _parse_amount returns the exact decimal
\* that its digits spell, with as many decimals as follow the comma, and
\* appends no warning ("1 234,50" gives 1234.50).
C12_CommaAndSpaces ==
    (last # None /\ last[1].method = "_parse_amount" /\ ~IsNa(last[1].arg)
       /\ CommaAndSpaces(last[1].arg.v)) =>
        /\ ~last[1].exc
        /\ last[1].val = Dec(0, DigitsVal(SelectSeq(last[1].arg.v, LAMBDA c : c \in Digits)),
                             0 - Decimals(last[1].arg.v))
        /\ Appended = << >>

\* _parse_amount has returned 1234.50 for "1 234,50".
C12_Witness ==
    /\ last # None /\ last[1].method = "_parse_amount"
    /\ last[1].arg = Text(<< "1", " ", "2", "3", "4", ",", "5", "0" >>)
    /\ last[1].val = Dec(0, 123450, -2)
    /\ last[1].after = last[1].before

-----------------------------------------------------------------------------
(* C13 *)

\* The calendar dates of the claim.
Days == { [y |-> 2024, m |-> 3, d |-> 15], [y |-> 2024, m |-> 2, d |-> 29] }

\* day written as DD.MM.YYYY (1), YYYY-MM-DD (2), DD/MM/YYYY (3).
Written(day, n) ==
    CASE n = 1 -> Text(Zfill(day.d, 2) \o << "." >> \o Zfill(day.m, 2) \o << "." >> \o Zfill(day.y, 4))
      [] n = 2 -> Text(Zfill(day.y, 4) \o << "-" >> \o Zfill(day.m, 2) \o << "-" >> \o Zfill(day.d, 2))
      [] OTHER -> Text(Zfill(day.d, 2) \o << "/" >> \o Zfill(day.m, 2) \o << "/" >> \o Zfill(day.y, 4))

\* C13: a calendar date written as DD.MM.YYYY, as YYYY-MM-DD or as DD/MM/YYYY
\* is parsed by _parse_date to that date, the same for the three formats,
\* with no warning.
C13_SameDateInThreeFormats ==
    \A day \in Days, n \in 1..3 :
        (last # None /\ last[1].method = "_parse_date" /\ last[1].arg = Written(day, n)) =>
            /\ ~last[1].exc
            /\ last[1].val = day
            /\ Appended = << >>

\* _parse_date has returned 15 March 2024 for "15/03/2024", the format tried
\* last.
C13_Witness ==
    /\ last # None /\ last[1].method = "_parse_date"
    /\ last[1].arg = Written([y |-> 2024, m |-> 3, d |-> 15], 3)
    /\ last[1].arg = D_SLASH
    /\ last[1].val = [y |-> 2024, m |-> 3, d |-> 15]
    /\ last[1].after = last[1].before

-----------------------------------------------------------------------------
(* C14 *)

\* The InvoiceData and ActData of a state: the ones the last generation
\* built, and the ones a generation would build from the list at hand.
DataAtHand ==
    LET now == InvoiceData("7", [y |-> 2024, m |-> 3, d |-> 31], CUSTOMER_FULL, None,
                           current_services)
    IN  { now, ActDataOf(now) }
          \cup (IF invoice_data = None THEN { }
                ELSE { invoice_data[1], ActDataOf(invoice_data[1]) })

\* The smallest exponent among the amounts, at most 0.
LeastExp(services) ==
    LET exps == { services[n].amount.exp : n \in 1..Len(services) } \cup { 0 }
    IN  CHOOSE e \in exps : \A f \in exps : e <= f

\* The sum of the amounts as an integer number of units of 10^e.
RECURSIVE SumUnits(_, _, _)
SumUnits(services, e, n) ==
    IF n = 0 THEN 0
    ELSE LET a == services[n].amount
         IN  SumUnits(services, e, n - 1)
               + (IF a.sign = 1 THEN 0 - a.coef ELSE a.coef) * Pow10(a.exp - e)

Amounts(services) == [n \in 1..Len(services) |-> services[n].amount]

\* C14: total_amount of every InvoiceData and ActData is the exact sum of
\* the amounts of its services and services_count is their number, also
\* after rows were edited; the amounts 100.00, 250.50, 49.50 give 400.00
\* and 3.
C14_TotalsAreExact ==
    \A data \in DataAtHand :
        LET e     == LeastExp(data.services)
            total == TotalAmount(data)
        IN  /\ total.exp = e
            /\ (IF total.sign = 1 THEN 0 - total.coef ELSE total.coef)
                  = SumUnits(data.services, e, Len(data.services))
            /\ ServicesCount(data) = Cardinality(DOMAIN data.services)
            /\ Amounts(data.services) = << Dec(0, 10000, -2), Dec(0, 25050, -2), Dec(0, 4950, -2) >>
                  => (total = Dec(0, 40000, -2) /\ ServicesCount(data) = 3)

\* An invoice was generated from services of 100.00, 250.50 and 49.50, with
\* total 400.00 and count 3, and a quantity was edited afterwards, so that
\* the total of the list at hand is another one.
C14_Witness ==
    /\ invoice_data # None
    /\ Amounts(invoice_data[1].services) = << Dec(0, 10000, -2), Dec(0, 25050, -2), Dec(0, 4950, -2) >>
    /\ TotalAmount(invoice_data[1]) = Dec(0, 40000, -2)
    /\ ServicesCount(invoice_data[1]) = 3
    /\ last # None /\ last[1].method = "setData" /\ last[1].ret /\ last[1].col = 2
    /\ Amounts(current_services) # Amounts(invoice_data[1].services)

-----------------------------------------------------------------------------
(* C15 *)

\* d is zero or positive.
NonNegative(d) == d.sign = 0 \/ (~IsSpecial(d) /\ d.coef = 0)

\* C15: the price and the amount of every service are non-negative, for the
\* services the row processor builds from any amount cell and after any
\* edit of quantity or price in the preview table.
C15_PriceAndAmountNonNegative ==
    \A n \in 1..Len(current_services) :
        /\ NonNegative(current_services[n].price)
        /\ NonNegative(current_services[n].amount)

-----------------------------------------------------------------------------
(* C16 *)

\* The rows of a sheet that hold a line of services: the ones with a
\* description in column B.
LineRows(sheet) == { c[2] : c \in { c \in DOMAIN sheet : c[1] = "B" } }

\* The row of the act with the count and the sum: three rows under the
\* lines as ActTemplate writes it, with the sum in words in the fourth; two
\* as _update_totals does.
ActCountRow(act, n) ==
    IF << "A", 11 + n + 4 >> \in DOMAIN act THEN 11 + n + 3 ELSE 11 + n + 2

\* C16: in the workbook written by generate_documents or update_template the
\* act carries the number, the date and the customer of the invoice and the
\* same services in the same order: both have the lines 1..n, numbered in
\* order and equal cell by cell, and the same count and total.
C16_ActMatchesInvoice ==
    book # None =>
        LET inv == book[1][SHEET_INVOICE]
            act == book[1][SHEET_ACT]
            n   == Cardinality(LineRows(inv))
        IN  /\ LineRows(inv) = 17..(16 + n)
            /\ LineRows(act) = 11..(10 + n)
            /\ \A i \in 1..n :
                  /\ inv[<< "A", 16 + i >>] = i
                  /\ act[<< "A", 10 + i >>] = i
                  /\ \A col \in { "B", "C", "D", "E", "F" } :
                        inv[<< col, 16 + i >>] = act[<< col, 10 + i >>]
            /\ \A k \in { 2, 4 } :
                  /\ act[<< "A", 1 >>][k] = inv[<< "A", 10 >>][k]
                  /\ act[<< "C", 8 >>][k] = inv[<< "A", 10 >>][k]
            /\ (<< "C", 6 >> \in DOMAIN act) = (<< "C", 14 >> \in DOMAIN inv)
            /\ << "C", 14 >> \in DOMAIN inv => act[<< "C", 6 >>] = inv[<< "C", 14 >>]
            /\ act[<< "F", 11 + n >>] = inv[<< "F", 17 + n >>]
            /\ \A k \in { 2, 4 } :
                  act[<< "A", ActCountRow(act, n) >>][k] = inv[<< "A", 17 + n + 2 >>][k]
            /\ inv[<< "A", 17 + n + 2 >>][2] = n

\* A workbook was written from the three services at hand, which differ:
\* line i of the invoice and of the act describes service i.
C16_Witness ==
    /\ book # None
    /\ Len(current_services) = 3
    /\ current_services[1] # current_services[3]
    /\ LineRows(book[1][SHEET_ACT]) = 11..13
    /\ \A i \in 1..3 :
          /\ book[1][SHEET_ACT][<< "B", 10 + i >>] = Description(current_services[i])
          /\ book[1][SHEET_INVOICE][<< "B", 16 + i >>] = Description(current_services[i])
          /\ book[1][SHEET_ACT][<< "F", 10 + i >>] = Float(current_services[i].amount)
    /\ book[1][SHEET_ACT][<< "F", 14 >>] = Float(TotalAmount(invoice_data[1]))

-----------------------------------------------------------------------------
(* C17 *)

\* C17: after any sequence of edits of the preview table through setData
\* the route of every service still begins with the origin.
C17_RouteStartsAtOriginAfterEdits ==
    \A n \in 1..Len(current_services) :
        /\ current_services[n].route # << >>
        /\ current_services[n].route[1] = ORIGIN

-----------------------------------------------------------------------------
(* C18 *)

\* The lines of an address cell that are not blank, stripped.
NonBlankLines(cell) ==
    SelectSeq([n \in 1..Len(SplitLines(cell.v)) |-> Strip(SplitLines(cell.v)[n])],
              LAMBDA line : line # << >>)

\* The cities the dictionary of abbreviations finds in some line of the cell.
CorrectedCities(cell) ==
    { CITY_CORRECTIONS[n].city :
        n \in { n \in 1..Len(CITY_CORRECTIONS) :
                  \E k \in 1..Len(NonBlankLines(cell)) :
                      SearchAbbr(CITY_CORRECTIONS[n].abbr, LowerLine(NonBlankLines(cell)[k])) } }

Keys(d) == { d[n].key : n \in 1..Len(d) }

\* C18: a line adds at most one city found by a pattern to the priority map,
\* besides the cities found by the dictionary: after _parse_addresses the
\* map holds, besides the dictionary's cities, at most as many cities as the
\* text has lines.
C18_OnePatternCityPerLine ==
    (parsed # None /\ ~IsNa(addr[1])) =>
        Cardinality(Keys(locations) \ CorrectedCities(addr[1])) <= Len(NonBlankLines(addr[1]))

-----------------------------------------------------------------------------
(* C19 *)

\* The mentions of cities in the lines of a cell, each with the priority of
\* the method that found it: 3 for the dictionary, 3 - i for patterns[i].
Mentions(cell) ==
    LET lines == NonBlankLines(cell) IN
    { << CITY_CORRECTIONS[n].city, 3 >> :
        n \in { n \in 1..Len(CITY_CORRECTIONS) :
                  \E k \in 1..Len(lines) :
                      SearchAbbr(CITY_CORRECTIONS[n].abbr, LowerLine(lines[k])) } }
    \cup
    { << PatternMatch(c[2], lines[c[1]]), 3 - c[2] >> :
        c \in { c \in (1..Len(lines)) \X (0..3) :
                  /\ PatternMatch(c[2], lines[c[1]]) # NoMatch
                  /\ Lower(PatternMatch(c[2], lines[c[1]])) # "dmitrov" } }

\* The priority map after the first k lines of the cell.
MapAfter(cell, k) ==
    ParseLines(NewLocations, SubSeq(SplitLines(cell.v), 1, k), CITY_CORRECTIONS)

\* C19: while the lines of an address are processed the priority of a city
\* in the map never decreases, and at the end it is the greatest of the
\* priorities of its mentions.
C19_PriorityNeverDecreases ==
    (parsed # None /\ ~IsNa(addr[1])) =>
        /\ MapAfter(addr[1], Len(SplitLines(addr[1].v))) = locations
        /\ \A k \in 1..Len(SplitLines(addr[1].v)) :
              LET before == MapAfter(addr[1], k - 1)
                  after  == MapAfter(addr[1], k)
              IN  \A n \in 1..Len(before) :
                      /\ DictHas(after, before[n].key)
                      /\ DictGet(after, before[n].key) >= before[n].val
        /\ LET mentions == Mentions(addr[1])
           IN  /\ Keys(locations) = { mention[1] : mention \in mentions }
               /\ \A n \in 1..Len(locations) :
                     /\ << locations[n].key, locations[n].val >> \in mentions
                     /\ \A mention \in mentions :
                           mention[1] = locations[n].key => mention[2] <= locations[n].val

\* _parse_addresses has returned for a text of two lines in which a city is
\* mentioned with a higher priority first and a lower one later, and the
\* map keeps the higher.
C19_Witness ==
    /\ parsed # None /\ ~IsNa(addr[1])
    /\ Len(NonBlankLines(addr[1])) = 2
    /\ \E n \in 1..Len(MapAfter(addr[1], 1)) :
          LET e == MapAfter(addr[1], 1)[n]
          IN  /\ e.val = 3
              /\ \E i \in 1..3 : PatternMatch(i, NonBlankLines(addr[1])[2]) = e.key
              /\ PatternMatch(0, NonBlankLines(addr[1])[2]) # e.key
              /\ DictGet(locations, e.key) = 3

-----------------------------------------------------------------------------
(* C20 *)

\* The places of a list of names that hold the origin, in any letter case.
OriginAt(names) == { n \in 1..Len(names) : Lower(names[n]) = Lower(ORIGIN) }

\* Some line of the cell names the origin after a town prefix.
NamesOrigin(cell) ==
    \E k \in 1..Len(NonBlankLines(cell)) :
        \E i \in 0..3 : Lower(PatternMatch(i, NonBlankLines(cell)[k])) = Lower(ORIGIN)

\* C20: the origin is never in the output of _parse_addresses, in whatever
\* letter case the address names it, and the route _extract_route builds
\* holds the origin once, at index 0.
C20_OriginOnlyAtStart ==
    /\ parsed # None => OriginAt(parsed[1]) = { }
    /\ route # None => OriginAt(route[1].val) = { 1 }

\* Both methods have returned for an address of two lines, one naming the
\* origin in capitals and one another city: the route is the origin and
\* that city.
C20_Witness ==
    /\ parsed # None /\ route # None /\ ~IsNa(addr[1])
    /\ Len(NonBlankLines(addr[1])) = 2
    /\ NamesOrigin(addr[1])
    /\ parsed[1] # << >>
    /\ route[1].val = << ORIGIN >> \o parsed[1]

-----------------------------------------------------------------------------
(* C21 *)

\* The place of a key in a dict.
PlaceOf(d, k) == CHOOSE n \in 1..Len(d) : d[n].key = k

\* C21: the output of _parse_addresses holds the cities of the priority map,
\* each once, in non-increasing priority, and cities of equal priority in
\* the order in which they entered the map; a priority in the map is 3 for a
\* city of the dictionary and 3 - i for one of patterns[i].
C21_SortedByPriorityStable ==
    (parsed # None /\ ~IsNa(addr[1])) =>
        LET out == parsed[1] IN
        /\ Len(out) = Len(locations)
        /\ { out[n] : n \in 1..Len(out) } = Keys(locations)
        /\ \A n \in 1..Len(locations) :
              << locations[n].key, locations[n].val >> \in Mentions(addr[1])
        /\ \A i, j \in 1..Len(out) :
              i < j =>
                  LET a == locations[PlaceOf(locations, out[i])]
                      b == locations[PlaceOf(locations, out[j])]
                  IN  \/ a.val > b.val
                      \/ /\ a.val = b.val
                         /\ PlaceOf(locations, out[i]) < PlaceOf(locations, out[j])

\* The map holds a city of priority 2 before two cities of priority 3: the
\* output lists the two in the order of the map and the first one last.
C21_Witness ==
    /\ parsed # None /\ ~IsNa(addr[1])
    /\ Len(locations) = 3
    /\ locations[1].val = 2 /\ locations[2].val = 3 /\ locations[3].val = 3
    /\ parsed[1] = << locations[2].key, locations[3].key, locations[1].key >>

-----------------------------------------------------------------------------
(* C22 *)

\* A calendar date, which "if not date" never takes for nothing.
IsDate(v) == v # None /\ DOMAIN v = { "y", "m", "d" } /\ v.d \in 1..DaysIn(v.y, v.m)

\* C22: _parse_date returns a date and does not raise; for a missing cell
\* and for a string no format matches it returns the current date and
\* appends exactly one warning, for that row and about the date; a datetime
\* is returned as it is, with no warning, as is the date a string spells.
C22_DateAlwaysReturned ==
    (last # None /\ last[1].method = "_parse_date") =>
        LET r == last[1] IN
        /\ ~r.exc /\ ~raised
        /\ IsDate(r.val)
        /\ SubSeq(r.after, 1, Len(r.before)) = r.before
        /\ heap[procs[r.self].warnings] = r.after
        /\ CASE IsNa(r.arg) ->
                  /\ r.val \in Clock
                  /\ Len(Appended) = 1
                  /\ Appended[1].row = r.row_index.v + 1
                  /\ FieldOf(Appended[1].kind) = COL_DATE
             [] r.arg.t = "datetime" -> r.val = r.arg.v /\ Appended = << >>
             [] OTHER ->
                  IF \A n \in 1..Len(DateFormats) : Strptime(r.arg.v, DateFormats[n]) = None
                  THEN /\ r.val \in Clock
                       /\ Len(Appended) = 1
                       /\ Appended[1].row = r.row_index.v + 1
                       /\ FieldOf(Appended[1].kind) = COL_DATE
                  ELSE Appended = << >>

\* _parse_date has returned the current date for 31.02.2024, in a row other
\* than the first, with one warning added to one already there.
C22_Witness ==
    /\ last # None /\ last[1].method = "_parse_date"
    /\ last[1].arg = D_FEB31
    /\ last[1].row_index.v > 0
    /\ last[1].val \in Clock
    /\ Len(last[1].before) = 1
    /\ Len(last[1].after) = 2

-----------------------------------------------------------------------------
(* C23 *)

\* The rows of df whose processing raises.
RaisingRows(df) ==
    IF df.index = "range" THEN { } ELSE { k \in 1..Len(df.rows) : Fails(df, k) # { } }

\* C23: when the processing of a row raises, process_file still returns
\* success = True, the data holds the services of the other rows, in their
\* order, and the warnings hold one entry of the batch level for each row
\* that raised.
C23_RowExceptionSkipsRow ==
    (file # None /\ result # None /\ Valid(file[1])
        /\ RaisingRows(TableOf(file[1])) # { }) =>
        LET df == TableOf(file[1]) IN
        /\ result[1].success
        /\ result[1].data # None
        /\ Len(result[1].data[1]) = Len(df.rows) - Cardinality(RaisingRows(df))
        /\ Cardinality({ n \in 1..Len(ResultWarnings) :
                            ResultWarnings[n].kind = "oshibka v stroke" })
              = Cardinality(RaisingRows(df))

-----------------------------------------------------------------------------
(* C24 *)

\* C24: every TransportService returned by process_file has price equal to
\* amount, quantity equal to 1 and unit equal to the default "шт.".
C24_IngestedServiceDefaults ==
    (result # None /\ result[1].data # None) =>
        \A k \in 1..Len(result[1].data[1]) :
            LET sv == result[1].data[1][k] IN
            /\ sv.price = sv.amount
            /\ sv.quantity = 1
            /\ sv.unit = << "sht." >>

\* Two services are returned, one with an amount that parsed to a non-zero
\* value and one whose amount fell back to 0.00.
C24_Witness ==
    /\ result # None /\ result[1].success /\ result[1].data # None
    /\ Len(result[1].data[1]) = 2
    /\ result[1].data[1][1].amount # ZERO_00
    /\ result[1].data[1][1].price = result[1].data[1][1].amount
    /\ result[1].data[1][2].amount = ZERO_00
    /\ result[1].data[1][2].price = ZERO_00

-----------------------------------------------------------------------------
(* C25 *)

\* chars is made of spaces only.
AllSpaces(chars) == \A n \in 1..Len(chars) : chars[n] = " "

\* name is chars without the whitespace around it.
Trimmed(chars, name) ==
    /\ name = << >> \/ (name[1] # " " /\ name[Len(name)] # " ")
    /\ \E i \in 0..Len(chars) :
           /\ i + Len(name) <= Len(chars)
           /\ AllSpaces(SubSeq(chars, 1, i))
           /\ SubSeq(chars, i + 1, i + Len(name)) = name
           /\ AllSpaces(SubSeq(chars, i + Len(name) + 1, Len(chars)))

\* C25: _extract_driver_name returns, for a text with a comma, the text
\* before the first comma without the whitespace around it and adds no
\* warning; for a text without a comma, the whole text as it is, and adds
\* exactly one warning; for a missing cell, "НЕ УКАЗАН", and adds exactly one
\* warning.
C25_DriverName ==
    (last # None /\ last[1].method = "_extract_driver_name") =>
        LET r == last[1] IN
        /\ ~r.exc
        /\ SubSeq(r.after, 1, Len(r.before)) = r.before
        /\ CASE IsNa(r.arg) ->
                  /\ r.val = NOT_SPECIFIED
                  /\ Len(Appended) = 1
                  /\ Appended[1].row = r.row_index.v + 1
                  /\ FieldOf(Appended[1].kind) = COL_DRIVER
             [] \E n \in 1..Len(r.arg.v) : r.arg.v[n] = "," ->
                  LET first == CHOOSE n \in 1..Len(r.arg.v) :
                                   /\ r.arg.v[n] = ","
                                   /\ \A k \in 1..(n - 1) : r.arg.v[k] # ","
                  IN  /\ Trimmed(SubSeq(r.arg.v, 1, first - 1), r.val)
                      /\ Appended = << >>
             [] OTHER ->
                  /\ r.val = r.arg.v
                  /\ Len(Appended) = 1
                  /\ Appended[1].row = r.row_index.v + 1
                  /\ FieldOf(Appended[1].kind) = COL_DRIVER

\* The name before the first of two commas has been returned without the
\* spaces around it, after a call that returned a text without a comma with
\* its spaces and one warning.
C25_Witness ==
    /\ last # None /\ last[1].method = "_extract_driver_name"
    /\ last[1].arg = DR_SPACED
    /\ last[1].val = << "I", "v" >>
    /\ Len(last[1].before) = 1
    /\ last[1].before[1].kind = "ne udalos izvlech imya voditelya"
    /\ last[1].after = last[1].before

-----------------------------------------------------------------------------
(* C26 *)

\* The required labels _validate_structure has reported missing.
ReportedMissing == IF last[1].val THEN << >> ELSE Appended[1].cols

\* The label at position k contains col, whatever the case.
Contains(columns, k, col) ==
    /\ columns[k].t = "str"
    /\ \E n \in 1..Len(columns[k].v) : Lower(columns[k].v[n]) = Lower(col)

\* The label at position k is a required label.
IsRequired(columns, k) ==
    \E n \in 1..Len(REQUIRED_COLUMNS) : columns[k] = StrLabel(<< REQUIRED_COLUMNS[n] >>)

\* What holds of every call: the verdict is False exactly when a label is
\* reported, by the one error added; a label that is a required label stays;
\* a label changes only to a required label it contains.
ColumnsKept(r) ==
    /\ Len(r.columns) = Len(r.arg)
    /\ r.val <=> (r.after = r.before)
    /\ ~r.val => Len(Appended) = 1 /\ Appended[1].cols # << >>
    /\ \A k \in 1..Len(r.arg) :
           /\ IsRequired(r.arg, k) => r.columns[k] = r.arg[k]
           /\ r.columns[k] # r.arg[k] =>
                  \E n \in 1..Len(REQUIRED_COLUMNS) :
                      /\ r.columns[k] = StrLabel(<< REQUIRED_COLUMNS[n] >>)
                      /\ Contains(r.arg, k, REQUIRED_COLUMNS[n])

\* C26 as stated: a required column is reported missing if and only if it
\* is not present exactly and no label of the loaded table contains it;
\* otherwise, when it is not present exactly, the first label of the loaded
\* table that contains it is renamed to it; a label that equals a required
\* label is never renamed.
C26_Stated ==
    (last # None /\ last[1].method = "_validate_structure") =>
        LET r == last[1] IN
        /\ ColumnsKept(r)
        /\ \A n \in 1..Len(REQUIRED_COLUMNS) :
               LET col      == REQUIRED_COLUMNS[n]
                   exact    == \E k \in 1..Len(r.arg) : r.arg[k] = StrLabel(<< col >>)
                   has(k)   == Contains(r.arg, k, col)
                   reported == \E j \in 1..Len(ReportedMissing) : ReportedMissing[j] = col
               IN  /\ reported <=> (~exact /\ ~\E k \in 1..Len(r.arg) : has(k))
                   /\ (~exact /\ \E k \in 1..Len(r.arg) : has(k)) =>
                          r.columns[Leftmost(has, Len(r.arg))] = StrLabel(<< col >>)

\* C26: a required column is reported missing if and only if it is not
\* present exactly and every label of the loaded table that contains it has
\* been renamed to a required label checked before it; otherwise, when it is
\* not present exactly, the first label that contains it and has not been
\* renamed so is renamed to it; a label that equals a required label is never
\* renamed.
C26_FuzzyColumns ==
    (last # None /\ last[1].method = "_validate_structure") =>
        LET r == last[1] IN
        /\ ColumnsKept(r)
        /\ \A n \in 1..Len(REQUIRED_COLUMNS) :
               LET col      == REQUIRED_COLUMNS[n]
                   exact    == \E k \in 1..Len(r.arg) : r.arg[k] = StrLabel(<< col >>)
                   free(k)  == /\ Contains(r.arg, k, col)
                               /\ ~\E j \in 1..(n - 1) :
                                      /\ r.columns[k] = StrLabel(<< REQUIRED_COLUMNS[j] >>)
                                      /\ r.columns[k] # r.arg[k]
                   reported == \E j \in 1..Len(ReportedMissing) : ReportedMissing[j] = col
               IN  /\ reported <=> (~exact /\ ~\E k \in 1..Len(r.arg) : free(k))
                   /\ (~exact /\ \E k \in 1..Len(r.arg) : free(k)) =>
                          /\ r.columns[Leftmost(free, Len(r.arg))] = StrLabel(<< col >>)
                          /\ \A k \in 1..Len(r.arg) :
                                 r.columns[k] = StrLabel(<< col >>) => k = Leftmost(free, Len(r.arg))

\* One label contained two required labels and a later label one of them:
\* the first was renamed for the required label checked first, the later one
\* for the other, and nothing was reported missing.
C26_Witness ==
    /\ last # None /\ last[1].method = "_validate_structure"
    /\ last[1].arg = SharedAndSpare
    /\ last[1].val
    /\ last[1].columns = ExactColumns
    /\ Len(last[1].before) = 1
    /\ last[1].after = last[1].before

-----------------------------------------------------------------------------
(* C27 *)

\* C27: after setData has overwritten the description of a service with the
\* text T, the description read from that service, as the invoice and the act
\* read it, is T; a service whose description was never overwritten gives the
\* sentence made of its date, driver, vehicle and route.
C27_EditWins ==
    (last # None /\ last[1].method = "setData" /\ last[1].ret /\ last[1].col = 1) =>
        LET r == last[1] IN
        /\ "_description" \in DOMAIN r.after[r.row + 1]
        /\ r.after[r.row + 1]["_description"] = StrOf(r.value)
        /\ Description(r.after[r.row + 1]) = StrOf(r.value)
        /\ \A k \in 1..Len(r.after) :
               "_description" \notin DOMAIN r.after[k] =>
                   Description(r.after[k]) = Description(r.before[k])

-----------------------------------------------------------------------------
(* C28 *)

\* The readers in the order of the attempts.
READERS == << EXCEL, "utf-8", "cp1251", "latin1", "ISO-8859-1" >>

\* What the n-th reader makes of f.
ReadBy(f, n) == IF n = 1 THEN f.excel ELSE f.csv[n - 1]

\* C28: _load_data tries the workbook reader first and then delimited text
\* with utf-8, cp1251, latin1 and ISO-8859-1 in that order; it returns the
\* table of the first attempt that succeeds and tries no later one; it
\* records the load error, and returns no table, only when every attempt
\* has failed.
C28_FirstReaderWins ==
    (last # None /\ last[1].method = "_load_data") =>
        LET r == last[1]
            n == Len(r.tried)
        IN  /\ n \in 1..Len(READERS)
            /\ r.tried = SubSeq(READERS, 1, n)
            /\ \A k \in 1..(n - 1) : ReadBy(r.arg, k) = None
            /\ IF r.val # None
               THEN /\ r.val = ReadBy(r.arg, n)
                    /\ r.after = r.before
               ELSE /\ n = Len(READERS)
                    /\ ReadBy(r.arg, n) = None
                    /\ Len(r.after) = Len(r.before) + 1
                    /\ SubSeq(r.after, 1, Len(r.before)) = r.before
                    /\ r.after[Len(r.after)].kind = "ne udalos zagruzit fayl"

\* utf-8 could not decode the file, cp1251 gave the table returned, and
\* latin1, which would have given another table, was not tried; the error of
\* an earlier call on an unreadable file is still the only one.
C28_Witness ==
    /\ last # None /\ last[1].method = "_load_data"
    /\ last[1].arg = MisreadFile(2)
    /\ last[1].tried = << EXCEL, "utf-8", "cp1251" >>
    /\ last[1].val = MisreadFile(2).csv[2]
    /\ last[1].val # MisreadFile(2).csv[3]
    /\ Len(last[1].before) = 1
    /\ last[1].before[1].kind = "ne udalos zagruzit fayl"
    /\ last[1].after = last[1].before

-----------------------------------------------------------------------------
(* C29 *)

\* Decimal.__eq__: the same number, whatever the exponents; an Infinity
\* equals the Infinity of its sign, a NaN equals nothing.
DecEq(a, b) ==
    IF IsSpecial(a) \/ IsSpecial(b)
    THEN /\ IsSpecial(a) /\ IsSpecial(b)
         /\ a.special = "Infinity" /\ b.special = "Infinity"
         /\ a.sign = b.sign
    ELSE Units(a, Min(a.exp, b.exp)) = Units(b, Min(a.exp, b.exp))

\* service.amount == service.price * service.quantity
AmountIsProduct(service) ==
    /\ ~MulRaises(service.price, service.quantity)
    /\ DecEq(service.amount, DecMulInt(service.price, service.quantity))

\* C29: for every service amount == price * quantity, after ingestion and
\* after any sequence of edits in the preview table; an edit of quantity or
\* price for which setData returns False leaves quantity, price and amount
\* as they were.
C29_AmountIsPriceTimesQuantity ==
    /\ \A n \in 1..Len(current_services) : AmountIsProduct(current_services[n])
    /\ (last # None /\ last[1].method = "setData" /\ ~last[1].ret) =>
           last[1].after = last[1].before

-----------------------------------------------------------------------------
(* C30 *)

\* The services are those process_file extracts from f, edited or not: as
\* many as f gives, each with the date, the driver and the vehicle of its
\* row, which no edit changes.
ExtractedFrom(services, f) ==
    /\ Processed[f] # None
    /\ Len(services) = Len(Processed[f][1])
    /\ \A k \in 1..Len(services) :
           /\ services[k].date = Processed[f][1][k].date
           /\ services[k].driver_name = Processed[f][1][k].driver_name
           /\ services[k].car_number = Processed[f][1][k].car_number

\* A step of generate_documents.
GenerateStep ==
    \E number \in InvoiceNumbers, date \in InvoiceDates, chosen, saved, words \in BOOLEAN :
        GenerateDocumentsClick(number, date, chosen, saved, words)

\* C30: after load_file has selected a file, the services the next
\* preview_data or generate_documents works with, and the services
\* generate_documents hands to the documents, are the ones extracted from
\* that file, also when services of a file loaded before were previewed or
\* used for generation.
C30_NoStaleServices ==
    [][ /\ (PreviewData \/ GenerateStep) /\ current_services' # << >> =>
               ExtractedFrom(current_services', current_file[1])
        /\ GenerateStep /\ invoice_data' # invoice_data =>
               ExtractedFrom(invoice_data'[1].services, current_file[1]) ]_vars

=============================================================================
